---- MODULE Spec2Model ----
(***************************************************************************)
(* Model of the friendship lifecycle handlers of albondigas-functions      *)
(* (friends module: sendFriendRequest, acceptFriendRequest,                *)
(* rejectFriendRequest, unfriend, blockUser, unblockUser,                  *)
(* repairFriendshipState) over the four Firestore record kinds:            *)
(*   friendships/{id}                      the Relationship                *)
(*   userFriendships/{owner}/friends/{o}   the two Mirrors                 *)
(*   chats/{id}                            the Conversation                *)
(*   friendshipEvents/{auto}               the FriendshipEvent log         *)
(* Server timestamps (createdAt, updatedAt, timestamp) are left out of the *)
(* documents: no handler branches on them.                                 *)
(***************************************************************************)
EXTENDS Integers, Sequences, FiniteSets, TLC

VARIABLES friendships, userFriendships, chats, friendshipEvents, last, procs,
          messages, now

vars == <<friendships, userFriendships, chats, friendshipEvents, last, procs,
          messages, now>>

(***************************************************************************)
(* Bounds and input sets                                                   *)
(***************************************************************************)
\* the friendshipEvents log is unbounded in the program; the model stops
\* appending after MaxEvents events
MaxEvents == 2
\* server timestamps are counted: the model stops stamping at MaxClock
MaxClock == 3
\* the largest query snapshot archiveUserVideos is run on
MaxDocs == 1001

\* users that have a document in the users collection (reachable by email)
Users == {"A", "B"}
\* authenticated callers; "C" is a caller that is a party to no Relationship
Actors == {"A", "B", "C"}
\* e-mail addresses a sender may type; "Z" belongs to no user
Emails == {"A", "B", "Z"}

None == "none"
\* the JavaScript value false in a field that may also be undefined
JsFalse == "false"
JsTrue == "true"
\* an undefined field whose values are id pairs
NoPair == <<>>

\* JavaScript's default Array.prototype.sort order on the ids used here
Ord(u) == CASE u = "A" -> 1 [] u = "B" -> 2 [] u = "C" -> 3 [] OTHER -> 4

\* SortPair that keeps the order of its arguments
SortPair_Unsorted(a, b) == <<a, b>>

\* [a, b].sort()
SortPair(a, b) == IF Ord(a) <= Ord(b) THEN <<a, b>> ELSE <<b, a>>

\* [a, b].sort().join('_'): the pair in sorted order stands for the joined string
FriendshipId(a, b) == SortPair(a, b)

FriendshipIds == {SortPair(a, b) : a \in Actors, b \in Actors}
MirrorKeys == Actors \X Actors

(***************************************************************************)
(* Documents. A DocumentSnapshot is a record with an exists flag; fields   *)
(* a document does not carry hold None (JavaScript undefined).             *)
(***************************************************************************)
AbsentFriendship ==
    [exists |-> FALSE, user1Id |-> None, user2Id |-> None, status |-> None,
     initiatorId |-> None, blockedBy |-> None]

AbsentMirror ==
    [exists |-> FALSE, friendshipId |-> NoPair, status |-> None, role |-> None]

AbsentChat ==
    [exists |-> FALSE, participants |-> NoPair, isActive |-> None]

\* the record store as one value, as a transaction sees it
Store ==
    [friendships |-> friendships, userFriendships |-> userFriendships,
     chats |-> chats, friendshipEvents |-> friendshipEvents]

EmptyStore ==
    [friendships |-> [k \in FriendshipIds |-> AbsentFriendship],
     userFriendships |-> [k \in MirrorKeys |-> AbsentMirror],
     chats |-> [k \in FriendshipIds |-> AbsentChat],
     friendshipEvents |-> <<>>]

AbsentOf(coll) ==
    CASE coll = "friendships" -> AbsentFriendship
      [] coll = "userFriendships" -> AbsentMirror
      [] OTHER -> AbsentChat

\* the fields of data laid over base
Fill(base, data) ==
    [f \in DOMAIN base |-> IF f \in DOMAIN data THEN data[f] ELSE base[f]]

\* the document a write leaves behind: set replaces, set-merge and update
\* overlay the given fields, delete removes
NewDoc(old, w) ==
    CASE w.kind = "delete" -> AbsentOf(w.coll)
      [] w.kind = "set" -> Fill([AbsentOf(w.coll) EXCEPT !.exists = TRUE], w.data)
      [] w.kind = "merge" -> Fill([old EXCEPT !.exists = TRUE], w.data)
      [] OTHER -> Fill(old, w.data)

\* the collection docs with the document at key replaced by doc
Put(docs, key, doc) ==
    [k \in DOMAIN docs |-> IF k = key THEN doc ELSE docs[k]]

ApplyWrite(db, w) ==
    CASE w.coll = "friendships" ->
           [db EXCEPT !.friendships = Put(db.friendships, w.key, NewDoc(db.friendships[w.key], w))]
      [] w.coll = "userFriendships" ->
           [db EXCEPT !.userFriendships = Put(db.userFriendships, w.key, NewDoc(db.userFriendships[w.key], w))]
      [] w.coll = "chats" ->
           [db EXCEPT !.chats = Put(db.chats, w.key, NewDoc(db.chats[w.key], w))]
      [] OTHER ->
           [db EXCEPT !.friendshipEvents = Append(@, w.data)]

RECURSIVE ApplyWrites(_, _)
ApplyWrites(db, ws) ==
    IF ws = <<>> THEN db ELSE ApplyWrites(ApplyWrite(db, Head(ws)), Tail(ws))

(***************************************************************************)
(* Transactions. A transaction body is the sequence of transactional reads *)
(* and writes it issues, in the order of the code, and either the value it *)
(* returns or the HttpsError it throws.                                    *)
(***************************************************************************)
NoData == [f \in {} |-> None]

\* transaction.get(ref)
Rd(coll, key) == [t |-> "r", coll |-> coll, key |-> key, kind |-> "get", data |-> NoData]

\* transaction.set / update / delete (ref, data)
Wr(coll, key, kind, data) == [t |-> "w", coll |-> coll, key |-> key, kind |-> kind, data |-> data]

IsWrite(s) == s.t = "w"

Ok == [success |-> TRUE, code |-> None, error |-> None]

\* return { success: false, error: msg }
Fail(msg) == [success |-> FALSE, code |-> None, error |-> msg]

\* throw new HttpsError(code, msg)
HttpsError(code, msg) == [success |-> FALSE, code |-> code, error |-> msg]

Returns(steps, ret) == [steps |-> steps, threw |-> FALSE, ret |-> ret]
Throws(steps, err) == [steps |-> steps, threw |-> TRUE, ret |-> err]

\* a transactional read issued after a transactional write of the same transaction
ReadAfterWrite(steps) ==
    \E i, j \in 1..Len(steps) : i < j /\ steps[i].t = "w" /\ steps[j].t = "r"

ReadAfterWriteError ==
    HttpsError(None, "Firestore transactions require all reads to be executed before all writes.")

\* db.runTransaction(body) run alone: a body that throws, or that reads after
\* it has written, aborts and writes nothing; otherwise its writes commit
\* together
runTransaction(db, body) ==
    IF body.threw
    THEN [db |-> db, committed |-> FALSE, threw |-> TRUE, ret |-> body.ret]
    ELSE IF ReadAfterWrite(body.steps)
    THEN [db |-> db, committed |-> FALSE, threw |-> TRUE, ret |-> ReadAfterWriteError]
    ELSE [db |-> ApplyWrites(db, SelectSeq(body.steps, IsWrite)),
          committed |-> TRUE, threw |-> FALSE, ret |-> body.ret]

\* the documents a committed outcome wrote
WrittenRefs(out, body) ==
    IF out.committed
    THEN {[coll |-> body.steps[i].coll, key |-> body.steps[i].key] :
             i \in {j \in 1..Len(body.steps) : body.steps[j].t = "w"}}
    ELSE {}

MirrorKey(owner, other) == <<owner, other>>

\* the friendship id of users A and B
AB == <<"A", "B">>

(***************************************************************************)
(* acceptFriendRequest                                                     *)
(***************************************************************************)
\* acceptMirrorWrite with the status left out of the update of an existing Mirror
acceptMirrorWrite_NoStatus(mirrorDoc, key, friendshipId, slotUserId, acceptingUserId) ==
    IF mirrorDoc.exists
    THEN Wr("userFriendships", key, "update", [friendshipId |-> friendshipId])
    ELSE Wr("userFriendships", key, "set",
            [friendshipId |-> friendshipId, status |-> "accepted",
             role |-> IF slotUserId = acceptingUserId THEN "recipient" ELSE "initiator"])

\* acceptMirrorWrite whose update also rewrites the role
acceptMirrorWrite_RewritesRole(mirrorDoc, key, friendshipId, slotUserId, acceptingUserId) ==
    IF mirrorDoc.exists
    THEN Wr("userFriendships", key, "update",
            [status |-> "accepted",
             role |-> IF slotUserId = acceptingUserId THEN "initiator" ELSE "recipient"])
    ELSE Wr("userFriendships", key, "set",
            [friendshipId |-> friendshipId, status |-> "accepted",
             role |-> IF slotUserId = acceptingUserId THEN "recipient" ELSE "initiator"])

\* the write for one Mirror in acceptFriendRequest: update when it exists,
\* otherwise create it with a role derived from user1Id / user2Id
acceptMirrorWrite(mirrorDoc, key, friendshipId, slotUserId, acceptingUserId) ==
    IF mirrorDoc.exists
    THEN Wr("userFriendships", key, "update", [status |-> "accepted"])
    ELSE Wr("userFriendships", key, "set",
            [friendshipId |-> friendshipId, status |-> "accepted",
             role |-> IF slotUserId = acceptingUserId THEN "recipient" ELSE "initiator"])

\* the chat write of acceptFriendRequest: created only when absent
acceptChatWrite(chatDoc, chatId, acceptingUserId, otherUserId) ==
    IF ~chatDoc.exists
    THEN <<Wr("chats", chatId, "set",
              [participants |-> <<acceptingUserId, otherUserId>>])>>
    ELSE <<>>

\* acceptPrecheck without the test of the status
acceptPrecheck_NoStatus(friendshipData, acceptingUserId) ==
    IF ~friendshipData.exists
    THEN Fail("Friend request not found")
    ELSE IF friendshipData.user1Id = None \/ friendshipData.user2Id = None
    THEN Fail("Invalid friendship data")
    ELSE IF friendshipData.user1Id # acceptingUserId
            /\ friendshipData.user2Id # acceptingUserId
    THEN Fail("You do not have permission to accept this request")
    ELSE Ok

\* acceptPrecheck without the test that the caller is one of the two users
acceptPrecheck_NoParty(friendshipData, acceptingUserId) ==
    IF ~friendshipData.exists
    THEN Fail("Friend request not found")
    ELSE IF friendshipData.user1Id = None \/ friendshipData.user2Id = None
    THEN Fail("Invalid friendship data")
    ELSE IF friendshipData.status # "pending"
    THEN Fail("This request is no longer pending")
    ELSE Ok

\* the validation of the friendship document read in the transaction: the
\* { success: false } value the body returns, or Ok when it goes on
acceptPrecheck(friendshipData, acceptingUserId) ==
    IF ~friendshipData.exists
    THEN Fail("Friend request not found")
    ELSE IF friendshipData.user1Id = None \/ friendshipData.user2Id = None
    THEN Fail("Invalid friendship data")
    ELSE IF friendshipData.status # "pending"
    THEN Fail("This request is no longer pending")
    ELSE IF friendshipData.user1Id # acceptingUserId
            /\ friendshipData.user2Id # acceptingUserId
    THEN Fail("You do not have permission to accept this request")
    ELSE Ok

acceptFriendRequestTxn(db, acceptingUserId, friendshipId) ==
    LET friendshipData == db.friendships[friendshipId]
        otherUserId == IF friendshipData.user1Id = acceptingUserId
                       THEN friendshipData.user2Id ELSE friendshipData.user1Id
        user1Key == MirrorKey(acceptingUserId, otherUserId)
        user2Key == MirrorKey(otherUserId, acceptingUserId)
        chatId == FriendshipId(acceptingUserId, otherUserId)
        rd1 == <<Rd("friendships", friendshipId)>>
        pre == acceptPrecheck(friendshipData, acceptingUserId)
    IN  IF ~pre.success
        THEN Returns(rd1, pre)
        ELSE Returns(
               rd1 \o <<Rd("userFriendships", user1Key), Rd("userFriendships", user2Key),
                        Rd("chats", chatId)>>
                   \o <<Wr("friendships", friendshipId, "update", [status |-> "accepted"]),
                        acceptMirrorWrite(db.userFriendships[user1Key], user1Key,
                                          friendshipId, friendshipData.user1Id, acceptingUserId),
                        acceptMirrorWrite(db.userFriendships[user2Key], user2Key,
                                          friendshipId, friendshipData.user2Id, acceptingUserId)>>
                   \o acceptChatWrite(db.chats[chatId], chatId, acceptingUserId, otherUserId),
               Ok)

\* the handler's catch: any error becomes { success: false, error: message }
acceptFriendRequestResult(out) ==
    IF out.threw THEN Fail(out.ret.error) ELSE out.ret


(***************************************************************************)
(* sendFriendRequest: plain reads followed by one write batch              *)
(***************************************************************************)
\* db.collection('users').where('email', '==', normalizedEmail): the e-mail
\* of a user is written like the user's id
UserByEmail(email) == IF email \in Users THEN email ELSE None

\* sendExistingCheck without the test for a pending Relationship
sendExistingCheck_NoPending(existingFriendship) ==
    IF ~existingFriendship.exists THEN Ok
    ELSE IF existingFriendship.status = "blocked"
    THEN HttpsError("not-found", "User not found")
    ELSE IF existingFriendship.status = "accepted"
    THEN HttpsError("already-exists", "Already friends with this user")
    ELSE Ok

\* sendExistingCheck that tells the sender about the block
sendExistingCheck_RevealsBlock(existingFriendship) ==
    IF ~existingFriendship.exists THEN Ok
    ELSE IF existingFriendship.status = "blocked"
    THEN HttpsError("permission-denied", "You cannot send a request to this user")
    ELSE IF existingFriendship.status = "accepted"
    THEN HttpsError("already-exists", "Already friends with this user")
    ELSE IF existingFriendship.status = "pending"
    THEN HttpsError("already-exists", "Friend request already pending")
    ELSE Ok

\* the check of the existing Relationship in sendFriendRequest: the
\* HttpsError it throws, or Ok when the request goes ahead
sendExistingCheck(existingFriendship) ==
    IF ~existingFriendship.exists THEN Ok
    ELSE IF existingFriendship.status = "blocked"
    THEN HttpsError("not-found", "User not found")
    ELSE IF existingFriendship.status = "accepted"
    THEN HttpsError("already-exists", "Already friends with this user")
    ELSE IF existingFriendship.status = "pending"
    THEN HttpsError("already-exists", "Friend request already pending")
    ELSE Ok

\* sendBatch that also opens the chat of the pair
sendBatch_CreatesChat(senderId, targetUserId) ==
    LET friendshipId == FriendshipId(senderId, targetUserId)
    IN  <<Wr("friendships", friendshipId, "set",
             [user1Id |-> SortPair(senderId, targetUserId)[1],
              user2Id |-> SortPair(senderId, targetUserId)[2],
              status |-> "pending", initiatorId |-> senderId]),
          Wr("userFriendships", MirrorKey(senderId, targetUserId), "set",
             [friendshipId |-> friendshipId, status |-> "pending", role |-> "initiator"]),
          Wr("userFriendships", MirrorKey(targetUserId, senderId), "set",
             [friendshipId |-> friendshipId, status |-> "pending", role |-> "recipient"]),
          Wr("chats", friendshipId, "set", [participants |-> <<senderId, targetUserId>>])>>

\* the three batch.set calls
sendBatch(senderId, targetUserId) ==
    LET friendshipId == FriendshipId(senderId, targetUserId)
    IN  <<Wr("friendships", friendshipId, "set",
             [user1Id |-> SortPair(senderId, targetUserId)[1],
              user2Id |-> SortPair(senderId, targetUserId)[2],
              status |-> "pending", initiatorId |-> senderId]),
          Wr("userFriendships", MirrorKey(senderId, targetUserId), "set",
             [friendshipId |-> friendshipId, status |-> "pending", role |-> "initiator"]),
          Wr("userFriendships", MirrorKey(targetUserId, senderId), "set",
             [friendshipId |-> friendshipId, status |-> "pending", role |-> "recipient"])>>

\* sendFriendRequestRun without the test that the target is another user
sendFriendRequestRun_NoSelfCheck(db, senderId, email) ==
    LET targetUserId == UserByEmail(email)
        check == sendExistingCheck(db.friendships[FriendshipId(senderId, targetUserId)])
    IN  IF targetUserId = None
        THEN Throws(<<>>, HttpsError("not-found", "User not found"))
        ELSE IF ~check.success
        THEN Throws(<<>>, check)
        ELSE Returns(sendBatch(senderId, targetUserId), Ok)

\* the whole handler on a store nobody else touches: steps holds the batch
sendFriendRequestRun(db, senderId, email) ==
    LET targetUserId == UserByEmail(email)
        check == sendExistingCheck(db.friendships[FriendshipId(senderId, targetUserId)])
    IN  IF targetUserId = None
        THEN Throws(<<>>, HttpsError("not-found", "User not found"))
        ELSE IF targetUserId = senderId
        THEN Throws(<<>>, HttpsError("invalid-argument", "Cannot send friend request to yourself"))
        ELSE IF ~check.success
        THEN Throws(<<>>, check)
        ELSE Returns(sendBatch(senderId, targetUserId), Ok)

(***************************************************************************)
(* rejectFriendRequest                                                     *)
(***************************************************************************)
\* rejectDeletes without the delete of the other user's Mirror
rejectDeletes_OneMirror(friendshipId, userId, otherUserId) ==
    <<Wr("friendships", friendshipId, "delete", NoData),
      Wr("userFriendships", MirrorKey(userId, otherUserId), "delete", NoData)>>

\* the three transaction.delete calls of rejectFriendRequest
rejectDeletes(friendshipId, userId, otherUserId) ==
    <<Wr("friendships", friendshipId, "delete", NoData),
      Wr("userFriendships", MirrorKey(userId, otherUserId), "delete", NoData),
      Wr("userFriendships", MirrorKey(otherUserId, userId), "delete", NoData)>>

rejectFriendRequestTxn(db, userId, friendshipId) ==
    LET friendshipData == db.friendships[friendshipId]
        otherUserId == IF friendshipData.user1Id = userId
                       THEN friendshipData.user2Id ELSE friendshipData.user1Id
        rd1 == <<Rd("friendships", friendshipId)>>
    IN  IF ~friendshipData.exists
        THEN Throws(rd1, HttpsError("not-found", "Friend request not found"))
        ELSE IF friendshipData.status # "pending"
        THEN Throws(rd1, HttpsError("failed-precondition", "This request is no longer pending"))
        ELSE IF friendshipData.user1Id # userId /\ friendshipData.user2Id # userId
        THEN Throws(rd1, HttpsError("permission-denied",
                                    "You do not have permission to reject this request"))
        ELSE Returns(rd1 \o rejectDeletes(friendshipId, userId, otherUserId), Ok)

\* catch (error) { throw new HttpsError('internal', error.message) }: every
\* error, the body's own HttpsErrors included, leaves as internal
WrapInternal(out) ==
    IF out.threw THEN HttpsError("internal", out.ret.error) ELSE out.ret

(***************************************************************************)
(* unfriend                                                                *)
(***************************************************************************)
\* unfriendChatWrite deleting the chat instead of deactivating it
unfriendChatWrite_Deletes(chatDoc, chatId) ==
    IF chatDoc.exists
    THEN <<Wr("chats", chatId, "delete", NoData)>>
    ELSE <<>>

\* step 4 of unfriend: mark the chat inactive when it exists
unfriendChatWrite(chatDoc, chatId) ==
    IF chatDoc.exists
    THEN <<Wr("chats", chatId, "update", [isActive |-> JsFalse])>>
    ELSE <<>>

\* unfriendTxn without the test of the status
unfriendTxn_AnyStatus(db, userId, friendId) ==
    LET friendshipId == FriendshipId(userId, friendId)
        chatId == FriendshipId(userId, friendId)
        friendshipData == db.friendships[friendshipId]
        otherUserId == IF friendshipData.user1Id = userId
                       THEN friendshipData.user2Id ELSE friendshipData.user1Id
        rd1 == <<Rd("friendships", friendshipId)>>
    IN  IF ~friendshipData.exists
        THEN Throws(rd1, HttpsError("not-found", "Friendship not found"))
        ELSE IF friendshipData.user1Id # userId /\ friendshipData.user2Id # userId
        THEN Throws(rd1, HttpsError("permission-denied",
                                    "You do not have permission to unfriend this user"))
        ELSE Returns(
               rd1 \o <<Rd("chats", chatId)>>
                   \o <<Wr("friendshipEvents", friendshipId, "add",
                           [friendshipId |-> friendshipId, action |-> "unfriend",
                            initiatorId |-> userId, targetId |-> otherUserId]),
                        Wr("friendships", friendshipId, "delete", NoData),
                        Wr("userFriendships", MirrorKey(userId, otherUserId), "delete", NoData),
                        Wr("userFriendships", MirrorKey(otherUserId, userId), "delete", NoData)>>
                   \o unfriendChatWrite(db.chats[chatId], chatId),
               Ok)

unfriendTxn(db, userId, friendId) ==
    LET friendshipId == FriendshipId(userId, friendId)
        chatId == FriendshipId(userId, friendId)
        friendshipData == db.friendships[friendshipId]
        otherUserId == IF friendshipData.user1Id = userId
                       THEN friendshipData.user2Id ELSE friendshipData.user1Id
        rd1 == <<Rd("friendships", friendshipId)>>
    IN  IF ~friendshipData.exists
        THEN Throws(rd1, HttpsError("not-found", "Friendship not found"))
        ELSE IF friendshipData.status # "accepted"
        THEN Throws(rd1, HttpsError("failed-precondition",
                                    "You are not currently friends with this user"))
        ELSE IF friendshipData.user1Id # userId /\ friendshipData.user2Id # userId
        THEN Throws(rd1, HttpsError("permission-denied",
                                    "You do not have permission to unfriend this user"))
        ELSE Returns(
               rd1 \o <<Rd("chats", chatId)>>
                   \o <<Wr("friendshipEvents", friendshipId, "add",
                           [friendshipId |-> friendshipId, action |-> "unfriend",
                            initiatorId |-> userId, targetId |-> otherUserId]),
                        Wr("friendships", friendshipId, "delete", NoData),
                        Wr("userFriendships", MirrorKey(userId, otherUserId), "delete", NoData),
                        Wr("userFriendships", MirrorKey(otherUserId, userId), "delete", NoData)>>
                   \o unfriendChatWrite(db.chats[chatId], chatId),
               Ok)

\* what unfriend hands back: the archival of both users' videos runs after
\* the commit, inside the same try block, when the chat existed; an error
\* there reaches the catch like any other
unfriendResult(out, chatExists, archiveFails) ==
    IF out.threw THEN HttpsError("internal", out.ret.error)
    ELSE IF chatExists /\ archiveFails THEN HttpsError("internal", "archive failed")
    ELSE Ok

(***************************************************************************)
(* blockUser                                                               *)
(***************************************************************************)
\* blockFriendshipWrite whose update of an existing Relationship leaves blockedBy out
blockFriendshipWrite_NoBlockedBy(friendshipDoc, friendshipId, blockingUserId, userToBlockId) ==
    IF friendshipDoc.exists
    THEN Wr("friendships", friendshipId, "update", [status |-> "blocked"])
    ELSE Wr("friendships", friendshipId, "set",
            [user1Id |-> SortPair(blockingUserId, userToBlockId)[1],
             user2Id |-> SortPair(blockingUserId, userToBlockId)[2],
             status |-> "blocked", blockedBy |-> blockingUserId])

blockFriendshipWrite(friendshipDoc, friendshipId, blockingUserId, userToBlockId) ==
    IF friendshipDoc.exists
    THEN Wr("friendships", friendshipId, "update",
            [status |-> "blocked", blockedBy |-> blockingUserId])
    ELSE Wr("friendships", friendshipId, "set",
            [user1Id |-> SortPair(blockingUserId, userToBlockId)[1],
             user2Id |-> SortPair(blockingUserId, userToBlockId)[2],
             status |-> "blocked", blockedBy |-> blockingUserId])

blockChatWrite(chatDoc, chatId) ==
    IF chatDoc.exists THEN <<Wr("chats", chatId, "delete", NoData)>> ELSE <<>>

\* the chat document is read with transaction.get after the three writes
blockUserTxn(db, blockingUserId, userToBlockId) ==
    LET friendshipId == FriendshipId(blockingUserId, userToBlockId)
        chatId == FriendshipId(blockingUserId, userToBlockId)
    IN  Returns(
          <<Rd("friendships", friendshipId),
            blockFriendshipWrite(db.friendships[friendshipId], friendshipId,
                                 blockingUserId, userToBlockId),
            Wr("userFriendships", MirrorKey(blockingUserId, userToBlockId), "merge",
               [friendshipId |-> friendshipId, status |-> "blocked", role |-> "blocker"]),
            Wr("userFriendships", MirrorKey(userToBlockId, blockingUserId), "merge",
               [friendshipId |-> friendshipId, status |-> "blocked", role |-> "blocked"]),
            Rd("chats", chatId)>>
            \o blockChatWrite(db.chats[chatId], chatId),
          Ok)

(***************************************************************************)
(* unblockUser                                                             *)
(***************************************************************************)
\* unblockUserTxn without the test that the caller placed the block
unblockUserTxn_AnyCaller(db, unblockingUserId, userToUnblockId) ==
    LET friendshipId == FriendshipId(unblockingUserId, userToUnblockId)
        friendshipData == db.friendships[friendshipId]
        rd1 == <<Rd("friendships", friendshipId)>>
    IN  IF ~friendshipData.exists
        THEN Returns(rd1, Fail("No block record found"))
        ELSE IF friendshipData.status # "blocked"
        THEN Returns(rd1, Fail("This user is not blocked"))
        ELSE Returns(
               rd1 \o <<Wr("friendships", friendshipId, "delete", NoData),
                        Wr("userFriendships", MirrorKey(unblockingUserId, userToUnblockId),
                           "delete", NoData),
                        Wr("userFriendships", MirrorKey(userToUnblockId, unblockingUserId),
                           "delete", NoData),
                        Wr("friendshipEvents", friendshipId, "add",
                           [friendshipId |-> friendshipId, action |-> "unblock",
                            initiatorId |-> unblockingUserId, targetId |-> userToUnblockId])>>,
               Ok)

\* unblockUserTxn that has removed the block before it turns away a caller
\* who did not place it
unblockUserTxn_WritesThenRejects(db, unblockingUserId, userToUnblockId) ==
    LET friendshipId == FriendshipId(unblockingUserId, userToUnblockId)
        friendshipData == db.friendships[friendshipId]
        rd1 == <<Rd("friendships", friendshipId)>>
        deletes == <<Wr("friendships", friendshipId, "delete", NoData),
                     Wr("userFriendships", MirrorKey(unblockingUserId, userToUnblockId),
                        "delete", NoData),
                     Wr("userFriendships", MirrorKey(userToUnblockId, unblockingUserId),
                        "delete", NoData)>>
    IN  IF ~friendshipData.exists
        THEN Returns(rd1, Fail("No block record found"))
        ELSE IF friendshipData.status # "blocked"
        THEN Returns(rd1, Fail("This user is not blocked"))
        ELSE IF friendshipData.blockedBy # unblockingUserId
        THEN Returns(rd1 \o deletes, Fail("You did not block this user"))
        ELSE Returns(
               rd1 \o deletes
                   \o <<Wr("friendshipEvents", friendshipId, "add",
                           [friendshipId |-> friendshipId, action |-> "unblock",
                            initiatorId |-> unblockingUserId, targetId |-> userToUnblockId])>>,
               Ok)

unblockUserTxn(db, unblockingUserId, userToUnblockId) ==
    LET friendshipId == FriendshipId(unblockingUserId, userToUnblockId)
        friendshipData == db.friendships[friendshipId]
        rd1 == <<Rd("friendships", friendshipId)>>
    IN  IF ~friendshipData.exists
        THEN Returns(rd1, Fail("No block record found"))
        ELSE IF friendshipData.status # "blocked"
        THEN Returns(rd1, Fail("This user is not blocked"))
        ELSE IF friendshipData.blockedBy # unblockingUserId
        THEN Returns(rd1, Fail("You did not block this user"))
        ELSE Returns(
               rd1 \o <<Wr("friendships", friendshipId, "delete", NoData),
                        Wr("userFriendships", MirrorKey(unblockingUserId, userToUnblockId),
                           "delete", NoData),
                        Wr("userFriendships", MirrorKey(userToUnblockId, unblockingUserId),
                           "delete", NoData),
                        Wr("friendshipEvents", friendshipId, "add",
                           [friendshipId |-> friendshipId, action |-> "unblock",
                            initiatorId |-> unblockingUserId, targetId |-> userToUnblockId])>>,
               Ok)


(***************************************************************************)
(* repairFriendshipState: the Relationship is read with a plain get before *)
(* the transaction; the transaction reads both Mirrors and the chat        *)
(***************************************************************************)
\* repairAcceptedMirror that updates an existing Mirror whatever its status
repairAcceptedMirror_AlwaysUpdates(mirrorDoc, key, friendshipId, slotIsCaller) ==
    IF ~mirrorDoc.exists
    THEN <<Wr("userFriendships", key, "set",
              [friendshipId |-> friendshipId, status |-> "accepted",
               role |-> IF slotIsCaller THEN "recipient" ELSE "initiator"])>>
    ELSE <<Wr("userFriendships", key, "update", [status |-> "accepted"])>>

\* accepted branch, one Mirror: create when missing, set the status when it
\* is another one, else leave it
repairAcceptedMirror(mirrorDoc, key, friendshipId, slotIsCaller) ==
    IF ~mirrorDoc.exists
    THEN <<Wr("userFriendships", key, "set",
              [friendshipId |-> friendshipId, status |-> "accepted",
               role |-> IF slotIsCaller THEN "recipient" ELSE "initiator"])>>
    ELSE IF mirrorDoc.status # "accepted"
    THEN <<Wr("userFriendships", key, "update", [status |-> "accepted"])>>
    ELSE <<>>

repairChatWrite(chatDoc, chatId, userId, friendId) ==
    IF ~chatDoc.exists
    THEN <<Wr("chats", chatId, "set", [participants |-> <<userId, friendId>>])>>
    ELSE <<>>

\* repairPendingMirror that also rewrites the Relationship when it creates a Mirror
repairPendingMirror_WritesRelationship(mirrorDoc, key, friendshipId, role) ==
    IF ~mirrorDoc.exists
    THEN <<Wr("userFriendships", key, "set",
              [friendshipId |-> friendshipId, status |-> "pending", role |-> role]),
           Wr("friendships", friendshipId, "update", [initiatorId |-> key[1]])>>
    ELSE <<>>

\* pending branch, one Mirror: created only when it is missing
repairPendingMirror(mirrorDoc, key, friendshipId, role) ==
    IF ~mirrorDoc.exists
    THEN <<Wr("userFriendships", key, "set",
              [friendshipId |-> friendshipId, status |-> "pending", role |-> role])>>
    ELSE <<>>

repairFriendshipStateTxn(db, friendshipData, userId, friendId) ==
    LET friendshipId == FriendshipId(userId, friendId)
        chatId == FriendshipId(userId, friendId)
        user1Key == MirrorKey(userId, friendId)
        user2Key == MirrorKey(friendId, userId)
        user1Doc == db.userFriendships[user1Key]
        user2Doc == db.userFriendships[user2Key]
        chatDoc == db.chats[chatId]
        initiatorId == IF friendshipData.initiatorId # None
                       THEN friendshipData.initiatorId ELSE friendshipData.user1Id
        recipientId == IF initiatorId = userId THEN friendId ELSE userId
        initiatorDoc == IF initiatorId = userId THEN user1Doc ELSE user2Doc
        recipientDoc == IF recipientId = userId THEN user1Doc ELSE user2Doc
        rds == <<Rd("userFriendships", user1Key), Rd("userFriendships", user2Key),
                 Rd("chats", chatId)>>
    IN  IF friendshipData.status = "accepted"
        THEN Returns(
               rds \o repairAcceptedMirror(user1Doc, user1Key, friendshipId,
                                           friendshipData.user1Id = userId)
                   \o repairAcceptedMirror(user2Doc, user2Key, friendshipId,
                                           friendshipData.user2Id = friendId)
                   \o repairChatWrite(chatDoc, chatId, userId, friendId),
               Ok)
        ELSE IF friendshipData.status = "pending"
        THEN Returns(
               rds \o repairPendingMirror(initiatorDoc, MirrorKey(initiatorId, recipientId),
                                          friendshipId, "initiator")
                   \o repairPendingMirror(recipientDoc, MirrorKey(recipientId, initiatorId),
                                          friendshipId, "recipient"),
               Ok)
        ELSE Returns(rds, Ok)

\* repairFriendshipStateRun that removes the Mirrors of a pair without Relationship
repairFriendshipStateRun_DeletesOrphans(db, userId, friendId) ==
    LET friendshipDoc == db.friendships[FriendshipId(userId, friendId)]
    IN  IF ~friendshipDoc.exists
        THEN Returns(<<Wr("userFriendships", MirrorKey(userId, friendId), "delete", NoData),
                       Wr("userFriendships", MirrorKey(friendId, userId), "delete", NoData)>>,
                     Fail("No friendship found"))
        ELSE repairFriendshipStateTxn(db, friendshipDoc, userId, friendId)

\* the whole handler on a store nobody else touches
repairFriendshipStateRun(db, userId, friendId) ==
    LET friendshipDoc == db.friendships[FriendshipId(userId, friendId)]
    IN  IF ~friendshipDoc.exists
        THEN Returns(<<>>, Fail("No friendship found"))
        ELSE repairFriendshipStateTxn(db, friendshipDoc, userId, friendId)

(***************************************************************************)
(* archiveUserVideos. The messages of a chat live in chats/{id}/messages;  *)
(* the clients create them. A server timestamp is the count of stamps      *)
(* issued so far; archivedAt = 0 stands for a message without the field.   *)
(***************************************************************************)
MessageIds == {"m1", "m2"}

AbsentMessage ==
    [exists |-> FALSE, chatId |-> NoPair, senderId |-> None, isDeleted |-> None,
     isArchived |-> None, archivedAt |-> 0, archivedReason |-> None,
     originalChatId |-> NoPair]

NoMessages == [i \in MessageIds |-> AbsentMessage]

\* messagesRef.where('senderId', '==', senderId).where('isDeleted', '!=', true):
\* a != filter matches only documents that carry the field
archiveQuery(msgs, chatId, senderId) ==
    {i \in MessageIds : /\ msgs[i].exists
                        /\ msgs[i].chatId = chatId
                        /\ msgs[i].senderId = senderId
                        /\ msgs[i].isDeleted # None
                        /\ msgs[i].isDeleted # JsTrue}

\* the documents of the snapshot the loop does not skip
archiveTargets(msgs, chatId, senderId) ==
    {i \in archiveQuery(msgs, chatId, senderId) : msgs[i].isArchived # JsTrue}

\* archiveUserVideos(chatId, senderId, reason) at time t: the messages it
\* leaves, the time after it, the documents it updated and the count it
\* returns; the updates of a snapshot of fewer than BATCH_SIZE documents
\* go out in one batch
archiveUserVideos(msgs, t, chatId, senderId, reason) ==
    LET targets == archiveTargets(msgs, chatId, senderId)
    IN  [messages |-> [i \in MessageIds |->
                         IF i \in targets
                         THEN [msgs[i] EXCEPT !.isArchived = JsTrue,
                                              !.archivedAt = t + 1,
                                              !.archivedReason = reason,
                                              !.originalChatId = chatId]
                         ELSE msgs[i]],
         now |-> IF targets = {} THEN t ELSE t + 1,
         written |-> targets,
         archivedCount |-> Cardinality(targets)]

\* unfriendArchive that archives whether or not the transaction committed
\* and found the chat
unfriendArchive_Unconditional(msgs, t, committed, chatExists, chatId, userId, otherUserId, archiveFails) ==
    LET first == archiveUserVideos(msgs, t, chatId, userId, "unfriended")
        second == archiveUserVideos(first.messages, first.now, chatId, otherUserId,
                                    "unfriended")
    IN  IF archiveFails
        THEN {[messages |-> msgs, now |-> t],
              [messages |-> first.messages, now |-> first.now]}
        ELSE {[messages |-> second.messages, now |-> second.now]}

\* step 5 of unfriend: after a commit that found the chat, the videos of the
\* caller and then those of the other user are archived; a failure leaves
\* the archival undone or done for the caller only
unfriendArchive(msgs, t, committed, chatExists, chatId, userId, otherUserId, archiveFails) ==
    LET first == archiveUserVideos(msgs, t, chatId, userId, "unfriended")
        second == archiveUserVideos(first.messages, first.now, chatId, otherUserId,
                                    "unfriended")
    IN  IF ~(committed /\ chatExists)
        THEN {[messages |-> msgs, now |-> t]}
        ELSE IF archiveFails
        THEN {[messages |-> msgs, now |-> t],
              [messages |-> first.messages, now |-> first.now]}
        ELSE {[messages |-> second.messages, now |-> second.now]}

(***************************************************************************)
(* The handlers as calls that do not overlap                               *)
(***************************************************************************)
\* what the last call was and what came of it
Called(op, actor, target, friendshipId, result, writes) ==
    [op |-> op, actor |-> actor, target |-> target, friendshipId |-> friendshipId,
     result |-> result, writes |-> writes]

NoCall == Called(None, None, None, NoPair, Ok, {})

\* friendship ids a client passes to acceptFriendRequest / rejectFriendRequest
RequestIds == {<<"A", "B">>, <<"A", "C">>}

NoProcs == <<>>

Commit(db) ==
    /\ friendships' = db.friendships
    /\ userFriendships' = db.userFriendships
    /\ chats' = db.chats
    /\ friendshipEvents' = db.friendshipEvents

\* whether the steps append to the event log
AddsEvent(steps) == \E i \in 1..Len(steps) : steps[i].coll = "friendshipEvents"

Init ==
    /\ friendships = EmptyStore.friendships
    /\ userFriendships = EmptyStore.userFriendships
    /\ chats = EmptyStore.chats
    /\ friendshipEvents = <<>>
    /\ last = NoCall
    /\ procs = NoProcs
    /\ messages = NoMessages
    /\ now = 0

sendFriendRequest(senderId, email) ==
    LET run == sendFriendRequestRun(Store, senderId, email)
        out == runTransaction(Store, run)
        target == UserByEmail(email)
    IN  /\ Commit(out.db)
        /\ last' = Called("sendFriendRequest", senderId, email,
                          IF target = None THEN NoPair ELSE FriendshipId(senderId, target),
                          out.ret, WrittenRefs(out, run))
        /\ UNCHANGED <<procs, messages, now>>

acceptFriendRequest(acceptingUserId, friendshipId) ==
    LET body == acceptFriendRequestTxn(Store, acceptingUserId, friendshipId)
        out == runTransaction(Store, body)
    IN  /\ Commit(out.db)
        /\ last' = Called("acceptFriendRequest", acceptingUserId, None, friendshipId,
                          acceptFriendRequestResult(out), WrittenRefs(out, body))
        /\ UNCHANGED <<procs, messages, now>>

rejectFriendRequest(userId, friendshipId) ==
    LET body == rejectFriendRequestTxn(Store, userId, friendshipId)
        out == runTransaction(Store, body)
    IN  /\ Commit(out.db)
        /\ last' = Called("rejectFriendRequest", userId, None, friendshipId,
                          WrapInternal(out), WrittenRefs(out, body))
        /\ UNCHANGED <<procs, messages, now>>

unfriend(userId, friendId, archiveFails) ==
    LET body == unfriendTxn(Store, userId, friendId)
        out == runTransaction(Store, body)
        chatId == FriendshipId(userId, friendId)
        chatExists == chats[chatId].exists
        friendshipData == friendships[FriendshipId(userId, friendId)]
        otherUserId == IF friendshipData.user1Id = userId
                       THEN friendshipData.user2Id ELSE friendshipData.user1Id
    IN  /\ AddsEvent(body.steps) => Len(friendshipEvents) < MaxEvents
        /\ archiveFails => out.committed /\ chatExists
        /\ Commit(out.db)
        /\ \E o \in unfriendArchive(messages, now, out.committed, chatExists, chatId,
                                     userId, otherUserId, archiveFails) :
              /\ o.now <= MaxClock
              /\ messages' = o.messages
              /\ now' = o.now
        /\ last' = Called("unfriend", userId, friendId, FriendshipId(userId, friendId),
                          unfriendResult(out, chatExists, archiveFails),
                          WrittenRefs(out, body))
        /\ UNCHANGED procs

blockUser(blockingUserId, userToBlockId) ==
    LET body == blockUserTxn(Store, blockingUserId, userToBlockId)
        out == runTransaction(Store, body)
    IN  /\ Commit(out.db)
        /\ last' = Called("blockUser", blockingUserId, userToBlockId,
                          FriendshipId(blockingUserId, userToBlockId),
                          WrapInternal(out), WrittenRefs(out, body))
        /\ UNCHANGED <<procs, messages, now>>

unblockUser(unblockingUserId, userToUnblockId) ==
    LET body == unblockUserTxn(Store, unblockingUserId, userToUnblockId)
        out == runTransaction(Store, body)
    IN  /\ AddsEvent(body.steps) => Len(friendshipEvents) < MaxEvents
        /\ Commit(out.db)
        /\ last' = Called("unblockUser", unblockingUserId, userToUnblockId,
                          FriendshipId(unblockingUserId, userToUnblockId),
                          WrapInternal(out), WrittenRefs(out, body))
        /\ UNCHANGED <<procs, messages, now>>

repairFriendshipState(userId, friendId) ==
    LET body == repairFriendshipStateRun(Store, userId, friendId)
        out == runTransaction(Store, body)
    IN  /\ Commit(out.db)
        /\ last' = Called("repairFriendshipState", userId, friendId,
                          FriendshipId(userId, friendId),
                          acceptFriendRequestResult(out), WrittenRefs(out, body))
        /\ UNCHANGED <<procs, messages, now>>

Next ==
    \/ \E a \in Users, e \in Emails : sendFriendRequest(a, e)
    \/ \E a \in Actors, f \in RequestIds : acceptFriendRequest(a, f)
    \/ \E a \in Actors, f \in RequestIds : rejectFriendRequest(a, f)
    \/ \E a \in Actors, b \in Actors, x \in BOOLEAN : unfriend(a, b, x)
    \/ \E a \in Actors, b \in Actors : blockUser(a, b)
    \/ \E a \in Actors, b \in Actors : unblockUser(a, b)
    \/ \E a \in Actors, b \in Actors : repairFriendshipState(a, b)

Spec == Init /\ [][Next]_vars


(***************************************************************************)
(* Properties of non-overlapping calls (Spec)                              *)
(***************************************************************************)
ToSet(seq) == {seq[i] : i \in 1..Len(seq)}

LiveStatuses == {"pending", "accepted", "blocked"}

\* both Mirrors of the pair exist in uf and carry the given status
MirrorsMatchIn(uf, fid, status) ==
    /\ uf[<<fid[1], fid[2]>>].exists
    /\ uf[<<fid[1], fid[2]>>].status = status
    /\ uf[<<fid[2], fid[1]>>].exists
    /\ uf[<<fid[2], fid[1]>>].status = status

MirrorsMatch(fid, status) == MirrorsMatchIn(userFriendships, fid, status)

MirrorsAbsentIn(uf, fid) ==
    /\ ~uf[<<fid[1], fid[2]>>].exists
    /\ ~uf[<<fid[2], fid[1]>>].exists

MirrorsAbsent(fid) == MirrorsAbsentIn(userFriendships, fid)

IsParty(doc, u) == doc.user1Id = u \/ doc.user2Id = u

\* C1: after every call of a sequence of non-overlapping calls started on an
\* empty store, a Relationship that exists with status pending, accepted or
\* blocked has both its Mirrors, each with the Relationship's status
C1_MirrorsFollowRelationship ==
    \A fid \in FriendshipIds :
        (friendships[fid].exists /\ friendships[fid].status \in LiveStatuses)
            => MirrorsMatch(fid, friendships[fid].status)

C1_Witness ==
    /\ last.op = "acceptFriendRequest"
    /\ last.result.success
    /\ friendships[<<"A", "B">>].status = "accepted"
    /\ MirrorsMatch(<<"A", "B">>, "accepted")

\* C3: accepting a pending request leaves the Relationship accepted and a
\* Conversation whose participants are exactly the two users; an unfriend by
\* either party of an accepted Relationship leaves the Relationship absent
\* and the Conversation present with isActive = FALSE
C3_RoundTrip ==
    [][ /\ ( /\ last'.op = "acceptFriendRequest"
             /\ friendships[last'.friendshipId].exists
             /\ friendships[last'.friendshipId].status = "pending"
             /\ IsParty(friendships[last'.friendshipId], last'.actor) )
           => ( /\ last'.result.success
                /\ friendships'[last'.friendshipId].exists
                /\ friendships'[last'.friendshipId].status = "accepted"
                /\ chats'[last'.friendshipId].exists
                /\ ToSet(chats'[last'.friendshipId].participants)
                     = ToSet(last'.friendshipId) )
        /\ ( /\ last'.op = "unfriend"
             /\ friendships[last'.friendshipId].exists
             /\ friendships[last'.friendshipId].status = "accepted"
             /\ IsParty(friendships[last'.friendshipId], last'.actor) )
           => ( /\ ~friendships'[last'.friendshipId].exists
                /\ chats'[last'.friendshipId].exists
                /\ chats'[last'.friendshipId].isActive = JsFalse )
      ]_vars

C3_Witness ==
    /\ last.op = "unfriend"
    /\ last.writes # {}
    /\ ~friendships[<<"A", "B">>].exists
    /\ chats[<<"A", "B">>].exists
    /\ chats[<<"A", "B">>].isActive = JsFalse
    /\ ToSet(chats[<<"A", "B">>].participants) = {"A", "B"}

\* C4: blockUser(A,B) on a pair without Relationship creates the Relationship
\* with status blocked and blockedBy = A; an unblockUser by the other party
\* is then rejected as permission denied and changes no record
C4_BlockCreatesAndOnlyBlockerUnblocks ==
    [][ /\ ( /\ last'.op = "blockUser"
             /\ last'.actor # last'.target
             /\ ~friendships[last'.friendshipId].exists )
           => ( /\ friendships'[last'.friendshipId].exists
                /\ friendships'[last'.friendshipId].status = "blocked"
                /\ friendships'[last'.friendshipId].blockedBy = last'.actor )
        /\ ( /\ last'.op = "unblockUser"
             /\ friendships[last'.friendshipId].exists
             /\ friendships[last'.friendshipId].status = "blocked"
             /\ friendships[last'.friendshipId].blockedBy # last'.actor )
           => ( /\ ~last'.result.success
                /\ last'.result.error = "You did not block this user"
                /\ UNCHANGED <<friendships, userFriendships, chats, friendshipEvents>> )
      ]_vars

\* C5: blockUser by a party of an accepted Relationship succeeds and leaves
\* status blocked, blockedBy = the caller and no Conversation record; a
\* sendFriendRequest over a blocked Relationship is rejected as not-found
\* and writes nothing
C5_BlockOverridesAccepted ==
    [][ /\ ( /\ last'.op = "blockUser"
             /\ friendships[last'.friendshipId].exists
             /\ friendships[last'.friendshipId].status = "accepted"
             /\ IsParty(friendships[last'.friendshipId], last'.actor)
             /\ IsParty(friendships[last'.friendshipId], last'.target)
             /\ last'.actor # last'.target )
           => ( /\ last'.result.success
                /\ friendships'[last'.friendshipId].status = "blocked"
                /\ friendships'[last'.friendshipId].blockedBy = last'.actor
                /\ ~chats'[last'.friendshipId].exists )
        /\ ( /\ last'.op = "sendFriendRequest"
             /\ last'.friendshipId # NoPair
             /\ friendships[last'.friendshipId].exists
             /\ friendships[last'.friendshipId].status = "blocked" )
           => ( /\ last'.result = HttpsError("not-found", "User not found")
                /\ last'.writes = {}
                /\ UNCHANGED <<friendships, userFriendships, chats, friendshipEvents>> )
      ]_vars

\* C6: a rejectFriendRequest by the recipient of a pending request leaves the
\* Relationship and both Mirrors absent, and a sendFriendRequest for the same
\* pair right after it succeeds and recreates the pending Relationship with
\* both Mirrors
C6_RejectThenResend ==
    [][ /\ ( /\ last'.op = "rejectFriendRequest"
             /\ friendships[last'.friendshipId].exists
             /\ friendships[last'.friendshipId].status = "pending"
             /\ IsParty(friendships[last'.friendshipId], last'.actor)
             /\ friendships[last'.friendshipId].initiatorId # last'.actor )
           => ( /\ last'.result.success
                /\ ~friendships'[last'.friendshipId].exists
                /\ MirrorsAbsentIn(userFriendships', last'.friendshipId) )
        /\ ( /\ last.op = "rejectFriendRequest"
             /\ last.result.success
             /\ last'.op = "sendFriendRequest"
             /\ last'.friendshipId = last.friendshipId )
           => ( /\ last'.result.success
                /\ friendships'[last'.friendshipId].exists
                /\ friendships'[last'.friendshipId].status = "pending"
                /\ friendships'[last'.friendshipId].initiatorId = last'.actor
                /\ MirrorsMatchIn(userFriendships', last'.friendshipId, "pending") )
      ]_vars

C6_Witness ==
    /\ last.op = "rejectFriendRequest"
    /\ last.result.success
    /\ last.actor = "B"
    /\ ~friendships[<<"A", "B">>].exists
    /\ MirrorsAbsent(<<"A", "B">>)


(***************************************************************************)
(* repairFriendshipState on a store that has drifted (RepairSpec). The     *)
(* store starts in any combination of the pair's four records: Mirrors and *)
(* the chat are lost or left stale by deleteAccount (which removes the     *)
(* user's userFriendships and keeps the friendships), by calls that        *)
(* overlap, and by documents written by earlier deployments.               *)
(***************************************************************************)
DriftFriendshipDocs ==
    {AbsentFriendship}
    \cup {[exists |-> TRUE, user1Id |-> "A", user2Id |-> "B", status |-> st,
           initiatorId |-> i, blockedBy |-> None] :
             st \in {"pending", "accepted"}, i \in {"A", "B", None}}
    \cup {[exists |-> TRUE, user1Id |-> "A", user2Id |-> "B", status |-> "blocked",
           initiatorId |-> i, blockedBy |-> b] :
             i \in {"A", "B", None}, b \in {"A", "B"}}

MirrorRoles == {"initiator", "recipient", "blocker", "blocked"}

DriftMirrorDocs ==
    {AbsentMirror}
    \cup {[exists |-> TRUE, friendshipId |-> AB, status |-> st, role |-> r] :
             st \in LiveStatuses, r \in MirrorRoles}

DriftChatDocs ==
    {AbsentChat,
     [exists |-> TRUE, participants |-> AB, isActive |-> None],
     [exists |-> TRUE, participants |-> AB, isActive |-> JsFalse]}

InitDrift ==
    /\ \E f \in DriftFriendshipDocs :
         friendships = Put(EmptyStore.friendships, AB, f)
    /\ \E m1 \in DriftMirrorDocs, m2 \in DriftMirrorDocs :
         userFriendships = Put(Put(EmptyStore.userFriendships, <<"A", "B">>, m1),
                               <<"B", "A">>, m2)
    /\ \E c \in DriftChatDocs : chats = Put(EmptyStore.chats, AB, c)
    /\ friendshipEvents = <<>>
    /\ last = NoCall
    /\ procs = NoProcs
    /\ messages = NoMessages
    /\ now = 0

NextRepair == \E a \in Actors, b \in Users : repairFriendshipState(a, b)

RepairSpec == InitDrift /\ [][NextRepair]_vars

\* the documents one more repairFriendshipState(userId, friendId) would write now
RepairWritesNow(userId, friendId) ==
    LET body == repairFriendshipStateRun(Store, userId, friendId)
    IN  WrittenRefs(runTransaction(Store, body), body)

\* C7: repair is idempotent: in the state a repairFriendshipState(A,B) call
\* leaves, whatever the records were before it, a second call with the same
\* arguments writes nothing
C7_RepairIdempotent ==
    last.op = "repairFriendshipState"
        => RepairWritesNow(last.actor, last.target) = {}

C7_Witness ==
    /\ last.op = "repairFriendshipState"
    /\ last.result.success
    /\ Cardinality(last.writes) = 3
    /\ RepairWritesNow(last.actor, last.target) = {}

\* C8: after a successful repairFriendshipState on a pair whose Relationship
\* exists with status S in {pending, accepted, blocked}, both Mirrors exist
\* with status S and, when S is accepted, the Conversation exists
C8_RepairHealsDerivedRecords ==
    ( /\ last.op = "repairFriendshipState"
      /\ last.result.success
      /\ friendships[last.friendshipId].exists
      /\ friendships[last.friendshipId].status \in LiveStatuses )
    => ( /\ MirrorsMatch(last.friendshipId, friendships[last.friendshipId].status)
         /\ friendships[last.friendshipId].status = "accepted"
              => chats[last.friendshipId].exists )

\* C9: repairFriendshipState never writes the Relationship: the friendships
\* collection is the same before and after every call, and no write of the
\* call addresses it
C9_RepairLeavesRelationship ==
    [][ last'.op = "repairFriendshipState"
          => ( /\ friendships' = friendships
               /\ \A w \in last'.writes : w.coll # "friendships" ) ]_vars

C9_Witness ==
    /\ last.op = "repairFriendshipState"
    /\ last.writes # {}
    /\ friendships[AB].exists

\* C10: when the pair has no Relationship, repairFriendshipState reports
\* "No friendship found" and writes nothing, whatever Mirrors and chat exist
C10_RepairAbsentNothingToRepair ==
    [][ ( /\ last'.op = "repairFriendshipState"
          /\ ~friendships[last'.friendshipId].exists )
        => ( /\ last'.result = Fail("No friendship found")
             /\ last'.writes = {}
             /\ UNCHANGED <<friendships, userFriendships, chats, friendshipEvents>> )
      ]_vars

C10_Witness ==
    /\ last.op = "repairFriendshipState"
    /\ last.friendshipId = AB
    /\ ~friendships[AB].exists
    /\ userFriendships[<<"A", "B">>].exists
    /\ chats[AB].exists
    /\ last.result = Fail("No friendship found")


(***************************************************************************)
(* Calls that overlap (ConcSpec). Each of two callers makes one call. A    *)
(* transaction attempt reads its documents, and commits only if none of    *)
(* the documents it read has changed since; otherwise the store runs the   *)
(* body again on fresh reads.                                              *)
(***************************************************************************)
Procs == {1, 2}

TxnOps == {"acceptFriendRequest", "rejectFriendRequest", "unfriend", "blockUser",
           "unblockUser"}

IdleProc ==
    [pc |-> "idle", op |-> None, actor |-> None, target |-> None, friendshipId |-> NoPair,
     startStatus |-> None, snap |-> EmptyStore, attempts |-> 0, commits |-> 0,
     result |-> Ok]

\* the other one of the two users
Other(u) == IF u = "A" THEN "B" ELSE "A"

\* stores that non-overlapping calls reach from the empty store
AfterSend == runTransaction(EmptyStore, sendFriendRequestRun(EmptyStore, "A", "B")).db
AfterAccept == runTransaction(AfterSend, acceptFriendRequestTxn(AfterSend, "B", AB)).db
AfterUnfriend == runTransaction(AfterAccept, unfriendTxn(AfterAccept, "A", "B")).db
AfterResend == runTransaction(AfterUnfriend, sendFriendRequestRun(AfterUnfriend, "B", "A")).db
AfterReaccept == runTransaction(AfterResend, acceptFriendRequestTxn(AfterResend, "A", AB)).db

ConcStartStores == {EmptyStore, AfterSend, AfterAccept, AfterUnfriend, AfterResend, AfterReaccept}

InitConc ==
    /\ \E db \in ConcStartStores :
         /\ friendships = db.friendships
         /\ userFriendships = db.userFriendships
         /\ chats = db.chats
         /\ friendshipEvents = db.friendshipEvents
    /\ last = NoCall
    /\ procs = [p \in Procs |-> IdleProc]
    /\ messages = NoMessages
    /\ now = 0

\* the transaction body of the call of p, run on the documents db holds
TxnBody(c, db) ==
    CASE c.op = "acceptFriendRequest" -> acceptFriendRequestTxn(db, c.actor, c.friendshipId)
      [] c.op = "rejectFriendRequest" -> rejectFriendRequestTxn(db, c.actor, c.friendshipId)
      [] c.op = "unfriend" -> unfriendTxn(db, c.actor, c.target)
      [] c.op = "blockUser" -> blockUserTxn(db, c.actor, c.target)
      [] OTHER -> unblockUserTxn(db, c.actor, c.target)

\* what the handler of the call hands to its caller
TxnResult(c, out, chatExists, archiveFails) ==
    CASE c.op = "acceptFriendRequest" -> acceptFriendRequestResult(out)
      [] c.op = "unfriend" -> unfriendResult(out, chatExists, archiveFails)
      [] OTHER -> WrapInternal(out)

DocAt(db, ref) ==
    CASE ref.coll = "friendships" -> db.friendships[ref.key]
      [] ref.coll = "userFriendships" -> db.userFriendships[ref.key]
      [] OTHER -> db.chats[ref.key]

\* Validated that lets every attempt commit, whatever was committed since it read
Validated_Skipped(snap, db, steps) == TRUE

\* the commit-time check of a transaction: every document the attempt read
\* is still as it was read
Validated(snap, db, steps) ==
    \A i \in 1..Len(steps) :
        steps[i].t = "r" => DocAt(snap, steps[i]) = DocAt(db, steps[i])

\* a caller starts a call
Call(p, op, actor) ==
    /\ procs[p].pc = "idle"
    /\ procs' = [procs EXCEPT ![p] =
                   [@ EXCEPT !.pc = "txn", !.op = op, !.actor = actor,
                             !.target = Other(actor), !.friendshipId = AB,
                             !.startStatus = friendships[AB].status]]
    /\ UNCHANGED <<friendships, userFriendships, chats, friendshipEvents, last,
                   messages, now>>

\* one attempt of the transaction issues its reads
TxnRead(p) ==
    /\ procs[p].pc = "txn"
    /\ procs' = [procs EXCEPT ![p] =
                   [@ EXCEPT !.pc = "commit", !.snap = Store, !.attempts = @ + 1]]
    /\ UNCHANGED <<friendships, userFriendships, chats, friendshipEvents, last,
                   messages, now>>

\* the attempt ends: it aborts on an error of the body, commits when the
\* documents it read are unchanged, and is run again otherwise
TxnCommit(p, archiveFails) ==
    LET c == procs[p]
        body == TxnBody(c, c.snap)
        out == runTransaction(Store, body)
        chatExists == c.snap.chats[AB].exists
    IN  /\ c.pc = "commit"
        /\ IF ~Validated(c.snap, Store, body.steps)
           THEN /\ ~archiveFails
                /\ procs' = [procs EXCEPT ![p] = [@ EXCEPT !.pc = "txn"]]
                /\ UNCHANGED <<friendships, userFriendships, chats, friendshipEvents,
                               messages, now>>
           ELSE /\ AddsEvent(body.steps) => Len(friendshipEvents) < MaxEvents
                /\ archiveFails => c.op = "unfriend" /\ out.committed /\ chatExists
                /\ Commit(out.db)
                /\ \E o \in unfriendArchive(messages, now,
                                             c.op = "unfriend" /\ out.committed,
                                             chatExists, AB, c.actor, c.target,
                                             archiveFails) :
                      /\ o.now <= MaxClock
                      /\ messages' = o.messages
                      /\ now' = o.now
                /\ procs' = [procs EXCEPT ![p] =
                               [@ EXCEPT !.pc = "done",
                                         !.commits = @ + (IF WrittenRefs(out, body) # {}
                                                          THEN 1 ELSE 0),
                                         !.result = TxnResult(c, out, chatExists, archiveFails)]]
        /\ UNCHANGED last

NextConc ==
    \/ \E p \in Procs, op \in TxnOps, a \in Users : Call(p, op, a)
    \/ \E p \in Procs : TxnRead(p)
    \/ \E p \in Procs, x \in BOOLEAN : TxnCommit(p, x)

ConcSpec == InitConc /\ [][NextConc]_vars

BothAcceptPending ==
    /\ \A p \in Procs : procs[p].op = "acceptFriendRequest"
                        /\ procs[p].startStatus = "pending"
                        /\ procs[p].pc = "done"

\* C2: when two acceptFriendRequest calls were both made while the
\* Relationship was pending, exactly one of them returns success and the
\* other is rejected as no longer pending; the Relationship ends accepted
\* and the accept writes were applied once
C2_ConcurrentAccept ==
    BothAcceptPending =>
        /\ \E p \in Procs :
             /\ procs[p].result.success
             /\ \A q \in Procs \ {p} :
                    procs[q].result = Fail("This request is no longer pending")
        /\ friendships[AB].status = "accepted"
        /\ MirrorsMatch(AB, "accepted")
        /\ procs[1].commits + procs[2].commits = 1

\* both calls had read the pending Relationship before either committed: the
\* loser was run a second time
C2_Witness ==
    /\ BothAcceptPending
    /\ procs[1].actor # procs[2].actor
    /\ procs[1].result.success
    /\ procs[2].attempts = 2
    /\ procs[2].result = Fail("This request is no longer pending")


(***************************************************************************)
(* Transition rules of non-overlapping calls (Spec)                        *)
(***************************************************************************)
StoreUnchanged == UNCHANGED <<friendships, userFriendships, chats, friendshipEvents>>

\* handlers that take the other user's id
PairOps == {"unfriend", "blockUser", "unblockUser", "repairFriendshipState"}

\* C11: one Relationship per unordered pair: a call with (A,B) and a call
\* with (B,A) address the same Relationship and Conversation key, every
\* stored Relationship sits under the sorted pair of its users with
\* user1Id < user2Id
C11_OneRelationshipPerPair ==
    /\ \A fid \in FriendshipIds :
          friendships[fid].exists
            => /\ friendships[fid].user1Id = fid[1]
               /\ friendships[fid].user2Id = fid[2]
               /\ Ord(fid[1]) < Ord(fid[2])
    /\ \A fid \in FriendshipIds : chats[fid].exists => Ord(fid[1]) < Ord(fid[2])
    /\ last.op \in PairOps
          => /\ last.friendshipId = FriendshipId(last.target, last.actor)
             /\ \A w \in last.writes :
                    w.coll \in {"friendships", "chats"} => w.key = last.friendshipId
    /\ (last.op = "sendFriendRequest" /\ UserByEmail(last.target) # None)
          => /\ last.friendshipId = FriendshipId(UserByEmail(last.target), last.actor)
             /\ \A w \in last.writes :
                    w.coll \in {"friendships", "chats"} => w.key = last.friendshipId

\* the request of B to A is stored under the key of the pair (A,B)
C11_Witness ==
    /\ last.op = "sendFriendRequest"
    /\ last.actor = "B"
    /\ last.target = "A"
    /\ [coll |-> "friendships", key |-> <<"A", "B">>] \in last.writes
    /\ friendships[<<"A", "B">>].initiatorId = "B"

\* C12: sendFriendRequest to oneself is rejected as invalid-argument, over a
\* pending or an accepted Relationship as already-exists, each without a
\* write; it writes only when the pair has no Relationship, and then
\* creates the pending Relationship with initiator = actor, the actor's
\* Mirror with role initiator and the target's with role recipient
C12_SendRules ==
    [][ last'.op = "sendFriendRequest" =>
          LET actor == last'.actor
              target == UserByEmail(last'.target)
              fid == last'.friendshipId
          IN  /\ target = actor
                    => /\ last'.result.code = "invalid-argument"
                       /\ last'.writes = {} /\ StoreUnchanged
              /\ ( target \notin {None, actor} /\ friendships[fid].exists
                    /\ friendships[fid].status \in {"pending", "accepted"} )
                    => /\ last'.result.code = "already-exists"
                       /\ last'.writes = {} /\ StoreUnchanged
              /\ last'.writes # {}
                    <=> (target \notin {None, actor} /\ ~friendships[fid].exists)
              /\ last'.writes # {}
                    => /\ last'.result.success
                       /\ friendships'[fid] =
                            [exists |-> TRUE, user1Id |-> fid[1], user2Id |-> fid[2],
                             status |-> "pending", initiatorId |-> actor,
                             blockedBy |-> None]
                       /\ userFriendships'[<<actor, target>>] =
                            [exists |-> TRUE, friendshipId |-> fid,
                             status |-> "pending", role |-> "initiator"]
                       /\ userFriendships'[<<target, actor>>] =
                            [exists |-> TRUE, friendshipId |-> fid,
                             status |-> "pending", role |-> "recipient"]
      ]_vars

\* a second request over the pending one was turned down
C12_Witness ==
    /\ last.op = "sendFriendRequest"
    /\ last.result = HttpsError("already-exists", "Friend request already pending")
    /\ last.writes = {}
    /\ friendships[<<"A", "B">>].status = "pending"

\* C13: acceptFriendRequest changes the store only when the Relationship
\* exists with status pending and the caller is one of its two users: the
\* Relationship and both Mirrors become accepted and the Conversation is
\* created if absent; in every other case the call is rejected and no
\* record changes
C13_AcceptRules ==
    [][ last'.op = "acceptFriendRequest" =>
          LET fid == last'.friendshipId
              f == friendships[fid]
              allowed == f.exists /\ f.status = "pending" /\ IsParty(f, last'.actor)
          IN  /\ allowed
                    => /\ last'.result.success
                       /\ friendships' = [friendships EXCEPT ![fid].status = "accepted"]
                       /\ MirrorsMatchIn(userFriendships', fid, "accepted")
                       /\ \A k \in MirrorKeys \ {<<fid[1], fid[2]>>, <<fid[2], fid[1]>>} :
                              userFriendships'[k] = userFriendships[k]
                       /\ chats'[fid].exists
                       /\ chats[fid].exists => chats' = chats
                       /\ \A c \in FriendshipIds \ {fid} : chats'[c] = chats[c]
                       /\ friendshipEvents' = friendshipEvents
              /\ ~allowed
                    => /\ ~last'.result.success
                       /\ last'.writes = {}
                       /\ StoreUnchanged
      ]_vars

\* a user who is no party to the pending request was turned down
C13_Witness ==
    /\ last.op = "acceptFriendRequest"
    /\ last.actor = "C"
    /\ last.result = Fail("You do not have permission to accept this request")
    /\ friendships[<<"A", "B">>].status = "pending"

\* C14: unfriend changes the store only when the Relationship exists with
\* status accepted and the caller is a party: the Relationship and both
\* Mirrors are deleted, an existing Conversation is kept with isActive =
\* FALSE, and one event (unfriend, initiatorId = caller, targetId = the
\* other user) is appended; on a pending, blocked or absent Relationship
\* the call is rejected and no record changes
C14_UnfriendRules ==
    [][ last'.op = "unfriend" =>
          LET fid == last'.friendshipId
              f == friendships[fid]
              allowed == f.exists /\ f.status = "accepted" /\ IsParty(f, last'.actor)
          IN  /\ allowed
                    => /\ friendships' = [friendships EXCEPT ![fid] = AbsentFriendship]
                       /\ userFriendships' =
                            [userFriendships EXCEPT ![<<fid[1], fid[2]>>] = AbsentMirror,
                                                    ![<<fid[2], fid[1]>>] = AbsentMirror]
                       /\ chats' = IF chats[fid].exists
                                   THEN [chats EXCEPT ![fid].isActive = JsFalse]
                                   ELSE chats
                       /\ friendshipEvents' =
                            Append(friendshipEvents,
                                   [friendshipId |-> fid, action |-> "unfriend",
                                    initiatorId |-> last'.actor,
                                    targetId |-> last'.target])
              /\ ~allowed
                    => /\ ~last'.result.success
                       /\ last'.writes = {}
                       /\ StoreUnchanged
      ]_vars

\* B ended the friendship: the event names B as initiator and A as target
C14_Witness ==
    /\ last.op = "unfriend"
    /\ last.actor = "B"
    /\ friendshipEvents # <<>>
    /\ friendshipEvents[Len(friendshipEvents)] =
          [friendshipId |-> <<"A", "B">>, action |-> "unfriend",
           initiatorId |-> "B", targetId |-> "A"]
    /\ ~friendships[<<"A", "B">>].exists
    /\ MirrorsAbsent(<<"A", "B">>)


(***************************************************************************)
(* The handlers on a store that holds a block (BlockedSpec). No call of    *)
(* blockUser commits its writes, so a blocked Relationship is in the store *)
(* only if it was put there otherwise; the start stores hold the documents *)
(* that the write calls of blockUser describe, laid over the stores that   *)
(* non-overlapping calls reach.                                            *)
(***************************************************************************)
\* db with the documents written by the write calls of blockUser(a, b)
WithBlock(db, a, b) ==
    ApplyWrites(db, SelectSeq(blockUserTxn(db, a, b).steps, IsWrite))

BlockedStores ==
    {WithBlock(db, a, Other(a)) : db \in {EmptyStore, AfterSend, AfterAccept}, a \in Users}

InitBlocked ==
    /\ \E db \in {EmptyStore} \cup BlockedStores :
         /\ friendships = db.friendships
         /\ userFriendships = db.userFriendships
         /\ chats = db.chats
         /\ friendshipEvents = db.friendshipEvents
    /\ last = NoCall
    /\ procs = NoProcs
    /\ messages = NoMessages
    /\ now = 0

BlockedSpec == InitBlocked /\ [][Next]_vars

\* C15: unblockUser changes the store only when the Relationship exists
\* with status blocked and the caller is blockedBy: the Relationship and
\* both Mirrors are deleted and one event (unblock) is appended, and a
\* sendFriendRequest between the two right after it succeeds; on an absent,
\* pending or accepted Relationship, or for another caller, the call is
\* rejected and no record changes
C15_UnblockRules ==
    [][ /\ last'.op = "unblockUser" =>
              LET fid == last'.friendshipId
                  f == friendships[fid]
                  allowed == f.exists /\ f.status = "blocked"
                                /\ f.blockedBy = last'.actor
              IN  /\ allowed
                        => /\ last'.result.success
                           /\ friendships' = [friendships EXCEPT ![fid] = AbsentFriendship]
                           /\ userFriendships' =
                                [userFriendships EXCEPT
                                    ![<<fid[1], fid[2]>>] = AbsentMirror,
                                    ![<<fid[2], fid[1]>>] = AbsentMirror]
                           /\ chats' = chats
                           /\ friendshipEvents' =
                                Append(friendshipEvents,
                                       [friendshipId |-> fid, action |-> "unblock",
                                        initiatorId |-> last'.actor,
                                        targetId |-> last'.target])
                  /\ ~allowed
                        => /\ ~last'.result.success
                           /\ last'.writes = {}
                           /\ StoreUnchanged
                  /\ ~f.exists => last'.result = Fail("No block record found")
                  /\ (f.exists /\ f.status \in {"pending", "accepted"})
                        => last'.result = Fail("This user is not blocked")
        /\ ( /\ last.op = "unblockUser"
             /\ last.result.success
             /\ last'.op = "sendFriendRequest"
             /\ last'.friendshipId = last.friendshipId )
           => ( /\ last'.result.success
                /\ friendships'[last'.friendshipId].status = "pending" )
      ]_vars

\* the blocker lifted the block
C15_Witness ==
    /\ last.op = "unblockUser"
    /\ last.result.success
    /\ last.actor = "A"
    /\ ~friendships[<<"A", "B">>].exists
    /\ MirrorsAbsent(<<"A", "B">>)
    /\ friendshipEvents # <<>>
    /\ friendshipEvents[Len(friendshipEvents)].action = "unblock"


(***************************************************************************)
(* blockUser and the order of reads and writes (Spec)                      *)
(***************************************************************************)
\* C16: blockUser succeeds from every prior state of the pair: afterwards
\* the Relationship is blocked with blockedBy = caller, the caller's Mirror
\* is blocked with role blocker, the target's Mirror is blocked with role
\* blocked, and the Conversation record is absent
C16_BlockFromAnyState ==
    [][ (last'.op = "blockUser" /\ last'.actor # last'.target) =>
          LET fid == last'.friendshipId
              mine == userFriendships'[<<last'.actor, last'.target>>]
              theirs == userFriendships'[<<last'.target, last'.actor>>]
          IN  /\ last'.result.success
              /\ friendships'[fid].exists
              /\ friendships'[fid].status = "blocked"
              /\ friendships'[fid].blockedBy = last'.actor
              /\ mine.exists /\ mine.status = "blocked" /\ mine.role = "blocker"
              /\ theirs.exists /\ theirs.status = "blocked" /\ theirs.role = "blocked"
              /\ ~chats'[fid].exists
      ]_vars

\* C17: in the transaction of every handler all reads are issued before the
\* first write: the steps of the transaction a call runs never hold a read
\* after a write
C17_ReadsBeforeWrites ==
    [][ /\ last'.op = "acceptFriendRequest"
            => ~ReadAfterWrite(acceptFriendRequestTxn(Store, last'.actor,
                                                      last'.friendshipId).steps)
        /\ last'.op = "rejectFriendRequest"
            => ~ReadAfterWrite(rejectFriendRequestTxn(Store, last'.actor,
                                                      last'.friendshipId).steps)
        /\ last'.op = "unfriend"
            => ~ReadAfterWrite(unfriendTxn(Store, last'.actor, last'.target).steps)
        /\ last'.op = "blockUser"
            => ~ReadAfterWrite(blockUserTxn(Store, last'.actor, last'.target).steps)
        /\ last'.op = "unblockUser"
            => ~ReadAfterWrite(unblockUserTxn(Store, last'.actor, last'.target).steps)
        /\ last'.op = "repairFriendshipState"
            => ~ReadAfterWrite(repairFriendshipStateRun(Store, last'.actor,
                                                        last'.target).steps)
      ]_vars


(***************************************************************************)
(* What the caller is handed (Spec)                                        *)
(***************************************************************************)
\* C18: whenever the transaction of unfriend commits, the caller receives
\* the success result, whether or not the archival that follows fails
C18_ArchiveFailureNotFatal ==
    [][ (last'.op = "unfriend" /\ last'.writes # {}) => last'.result.success ]_vars

\* C19: a precondition violation of rejectFriendRequest or unfriend reaches
\* the caller under its own code: not-found for an absent Relationship,
\* failed-precondition for one in the wrong status, permission-denied for a
\* caller who is no party; internal is left to store and commit failures
C19_TypedRejections ==
    [][ /\ last'.op = "rejectFriendRequest" =>
              LET f == friendships[last'.friendshipId]
              IN  /\ ~f.exists => last'.result.code = "not-found"
                  /\ (f.exists /\ f.status # "pending")
                        => last'.result.code = "failed-precondition"
                  /\ (f.exists /\ f.status = "pending" /\ ~IsParty(f, last'.actor))
                        => last'.result.code = "permission-denied"
        /\ last'.op = "unfriend" =>
              LET f == friendships[last'.friendshipId]
              IN  /\ ~f.exists => last'.result.code = "not-found"
                  /\ (f.exists /\ f.status # "accepted")
                        => last'.result.code = "failed-precondition"
                  /\ (f.exists /\ f.status = "accepted" /\ ~IsParty(f, last'.actor))
                        => last'.result.code = "permission-denied"
      ]_vars


(***************************************************************************)
(* Archival (ArchiveSpec). A and B are friends with a chat; the chats hold *)
(* any messages the clients may have written: with isDeleted true, false   *)
(* or not set, archived before or not.                                     *)
(***************************************************************************)
MessageChats == {<<"A", "B">>, <<"A", "C">>}

MessageDocs ==
    {AbsentMessage}
    \cup {[exists |-> TRUE, chatId |-> c, senderId |-> u, isDeleted |-> d,
           isArchived |-> None, archivedAt |-> 0, archivedReason |-> None,
           originalChatId |-> NoPair] :
             c \in MessageChats, u \in Users, d \in {None, JsFalse, JsTrue}}
    \cup {[exists |-> TRUE, chatId |-> c, senderId |-> u, isDeleted |-> d,
           isArchived |-> JsTrue, archivedAt |-> 1, archivedReason |-> "manual",
           originalChatId |-> c] :
             c \in MessageChats, u \in Users, d \in {None, JsFalse, JsTrue}}

InitArchive ==
    /\ friendships = AfterAccept.friendships
    /\ userFriendships = AfterAccept.userFriendships
    /\ chats = AfterAccept.chats
    /\ friendshipEvents = <<>>
    /\ last = NoCall
    /\ procs = NoProcs
    /\ messages \in [MessageIds -> MessageDocs]
    /\ now = 1

\* archiveVideosForChat, called by an admin: archiveUserVideos with reason 'manual'
archiveVideosForChat(chatId, senderId) ==
    LET run == archiveUserVideos(messages, now, chatId, senderId, "manual")
    IN  /\ run.now <= MaxClock
        /\ messages' = run.messages
        /\ now' = run.now
        /\ last' = Called("archiveVideosForChat", senderId, None, chatId,
                          [success |-> TRUE, code |-> None, error |-> None,
                           archivedCount |-> run.archivedCount],
                          {[coll |-> "messages", key |-> <<i>>] : i \in run.written})
        /\ UNCHANGED <<friendships, userFriendships, chats, friendshipEvents, procs>>

NextArchive ==
    \/ \E c \in MessageChats, u \in Users : archiveVideosForChat(c, u)
    \/ \E a \in Users, b \in Users, x \in BOOLEAN : unfriend(a, b, x)

ArchiveSpec == InitArchive /\ [][NextArchive]_vars

\* C20: archiveUserVideos(conversation, user) marks as archived exactly the
\* user's messages of the conversation that are neither deleted nor archived
\* yet, deletes none, leaves every other message as it was (those of other
\* senders and those archived before keep all their fields), returns their
\* number, and a second run right after it has nothing left to write
C20_ArchiveExactlyDue ==
    [][ last'.op = "archiveVideosForChat" =>
          LET c == last'.friendshipId
              u == last'.actor
              due == {i \in MessageIds : /\ messages[i].exists
                                         /\ messages[i].chatId = c
                                         /\ messages[i].senderId = u
                                         /\ messages[i].isDeleted # JsTrue
                                         /\ messages[i].isArchived # JsTrue}
          IN  /\ \A i \in due :
                    messages'[i] = [messages[i] EXCEPT !.isArchived = JsTrue,
                                                       !.archivedAt = now',
                                                       !.archivedReason = "manual",
                                                       !.originalChatId = c]
              /\ \A i \in MessageIds \ due : messages'[i] = messages[i]
              /\ \A i \in MessageIds : messages'[i].exists = messages[i].exists
              /\ last'.result.archivedCount = Cardinality(due)
              /\ archiveTargets(messages', c, u) = {}
      ]_vars


(***************************************************************************)
(* The batches of archiveUserVideos (BatchSpec). One invocation walks the  *)
(* documents 1..n of its query snapshot in order; procs holds its local    *)
(* variables. Document i is already archived when stride > 0 and stride    *)
(* divides i. A batch holds the documents it was given between its first   *)
(* and its last one, which are the unarchived documents in that range.     *)
(***************************************************************************)
BATCH_SIZE == 500

\* which documents of the snapshot carry isArchived: none, every 2nd, every 3rd
Strides == {0, 2, 3}

\* messageData.isArchived of document i
IsArchivedDoc(stride, i) == stride > 0 /\ i % stride = 0

\* db.batch()
NewBatch == [first |-> 0, last |-> 0, count |-> 0]

\* batch.update(doc.ref, ...) for document i
BatchUpdate(batch, i) ==
    [first |-> IF batch.count = 0 THEN i ELSE batch.first,
     last |-> i,
     count |-> batch.count + 1]

\* the test that commits in the loop, with > in place of >=
BatchFull_OffByOne(operationCount) == operationCount > BATCH_SIZE

\* if (operationCount >= BATCH_SIZE)
BatchFull(operationCount) == operationCount >= BATCH_SIZE

InitBatch ==
    /\ friendships = EmptyStore.friendships
    /\ userFriendships = EmptyStore.userFriendships
    /\ chats = EmptyStore.chats
    /\ friendshipEvents = <<>>
    /\ last = NoCall
    /\ messages = NoMessages
    /\ now = 0
    /\ \E n \in 0..MaxDocs, stride \in Strides :
         procs = [pc |-> "loop", n |-> n, stride |-> stride, i |-> 1,
                  operationCount |-> 0, archivedCount |-> 0, batch |-> NewBatch,
                  committed |-> <<>>, returned |-> 0]

BatchFrame == UNCHANGED <<friendships, userFriendships, chats, friendshipEvents, last,
                          messages, now>>

\* one turn of for (const doc of snapshot.docs)
archiveLoopStep ==
    /\ procs.pc = "loop"
    /\ procs.i <= procs.n
    /\ IF IsArchivedDoc(procs.stride, procs.i)
       THEN procs' = [procs EXCEPT !.i = @ + 1]
       ELSE LET batch == BatchUpdate(procs.batch, procs.i)
                operationCount == procs.operationCount + 1
            IN  IF BatchFull(operationCount)
                THEN procs' = [procs EXCEPT !.i = @ + 1,
                                            !.archivedCount = @ + 1,
                                            !.committed = Append(@, batch),
                                            !.batch = NewBatch,
                                            !.operationCount = 0]
                ELSE procs' = [procs EXCEPT !.i = @ + 1,
                                            !.archivedCount = @ + 1,
                                            !.batch = batch,
                                            !.operationCount = operationCount]
    /\ BatchFrame

\* after the loop: the remaining operations are committed and the count is returned
archiveLoopEnd ==
    /\ procs.pc = "loop"
    /\ procs.i > procs.n
    /\ IF procs.operationCount > 0
       THEN procs' = [procs EXCEPT !.pc = "done",
                                   !.committed = Append(@, procs.batch),
                                   !.returned = procs.archivedCount]
       ELSE procs' = [procs EXCEPT !.pc = "done", !.returned = procs.archivedCount]
    /\ BatchFrame

NextBatch == archiveLoopStep \/ archiveLoopEnd

BatchSpec == InitBatch /\ [][NextBatch]_vars

\* the unarchived documents among a..b
EligibleIn(stride, a, b) == {i \in a..b : ~IsArchivedDoc(stride, i)}

\* C21: every batch archiveUserVideos commits holds at least one and at
\* most BATCH_SIZE writes; when it returns, every document to archive is in
\* exactly one committed batch and the count returned is their number
C21_BatchesBounded ==
    /\ \A k \in 1..Len(procs.committed) :
          /\ procs.committed[k].count >= 1
          /\ procs.committed[k].count <= BATCH_SIZE
    /\ procs.pc = "done"
          => /\ \A k \in 1..Len(procs.committed) :
                   procs.committed[k].count
                     = Cardinality(EligibleIn(procs.stride, procs.committed[k].first,
                                              procs.committed[k].last))
             /\ \A i \in EligibleIn(procs.stride, 1, procs.n) :
                   Cardinality({k \in 1..Len(procs.committed) :
                                  /\ procs.committed[k].first <= i
                                  /\ i <= procs.committed[k].last}) = 1
             /\ procs.returned = Cardinality(EligibleIn(procs.stride, 1, procs.n))

\* a run that committed two full batches and a last one of a single document
C21_Witness ==
    /\ procs.pc = "done"
    /\ Len(procs.committed) = 3
    /\ procs.committed[1].count = BATCH_SIZE
    /\ procs.committed[2].count = BATCH_SIZE
    /\ procs.committed[3].count = 1
    /\ procs.returned = 2 * BATCH_SIZE + 1


(***************************************************************************)
(* checkFriendshipStatus on a store that has drifted (CheckSpec)           *)
(***************************************************************************)
\* the status object the handler builds from four plain reads; null and a
\* role that was not added are None
checkFriendshipStatusReport(db, userId, friendId) ==
    LET friendshipDoc == db.friendships[FriendshipId(userId, friendId)]
        user1Doc == db.userFriendships[MirrorKey(userId, friendId)]
        user2Doc == db.userFriendships[MirrorKey(friendId, userId)]
        chatDoc == db.chats[FriendshipId(userId, friendId)]
        mainStatus == friendshipDoc.status
        pending == friendshipDoc.exists /\ mainStatus = "pending"
    IN  [friendshipExists |-> friendshipDoc.exists,
         friendshipStatus |-> IF friendshipDoc.exists THEN friendshipDoc.status ELSE None,
         user1RecordExists |-> user1Doc.exists,
         user1Status |-> IF user1Doc.exists THEN user1Doc.status ELSE None,
         user2RecordExists |-> user2Doc.exists,
         user2Status |-> IF user2Doc.exists THEN user2Doc.status ELSE None,
         chatExists |-> chatDoc.exists,
         isConsistent |->
            IF friendshipDoc.exists /\ mainStatus = "accepted"
            THEN /\ user1Doc.exists
                 /\ user1Doc.status = "accepted"
                 /\ user2Doc.exists
                 /\ user2Doc.status = "accepted"
                 /\ chatDoc.exists
            ELSE IF pending
            THEN user1Doc.exists /\ user2Doc.exists
            ELSE FALSE,
         user1Role |-> IF pending /\ user1Doc.exists THEN user1Doc.role ELSE None,
         user2Role |-> IF pending /\ user2Doc.exists THEN user2Doc.role ELSE None]

\* checkFriendshipStatus that repairs what it finds
checkFriendshipStatus_Heals(userId, friendId) ==
    LET body == repairFriendshipStateRun(Store, userId, friendId)
        out == runTransaction(Store, body)
    IN  /\ Commit(out.db)
        /\ last' = Called("checkFriendshipStatus", userId, friendId,
                          FriendshipId(userId, friendId),
                          checkFriendshipStatusReport(Store, userId, friendId),
                          WrittenRefs(out, body))
        /\ UNCHANGED <<procs, messages, now>>

checkFriendshipStatus(userId, friendId) ==
    /\ last' = Called("checkFriendshipStatus", userId, friendId,
                      FriendshipId(userId, friendId),
                      checkFriendshipStatusReport(Store, userId, friendId), {})
    /\ UNCHANGED <<friendships, userFriendships, chats, friendshipEvents, procs,
                   messages, now>>

NextCheck ==
    \/ \E a \in Actors, b \in Users : checkFriendshipStatus(a, b)
    \/ \E a \in Actors, b \in Users : repairFriendshipState(a, b)

CheckSpec == InitDrift /\ [][NextCheck]_vars

\* C22: checkFriendshipStatus is read-only: whatever the four records are,
\* a call leaves the Relationship, both Mirrors, the Conversation and the
\* event log as they were
C22_CheckReadOnly ==
    [][ last'.op = "checkFriendshipStatus"
          => /\ last'.writes = {}
             /\ StoreUnchanged
             /\ messages' = messages ]_vars

\* a check that found an accepted Relationship without its Conversation
C22_Witness ==
    /\ last.op = "checkFriendshipStatus"
    /\ last.actor = "A"
    /\ last.target = "B"
    /\ friendships[AB].status = "accepted"
    /\ ~chats[AB].exists
    /\ ~last.result.isConsistent
    /\ ~last.result.chatExists


(***************************************************************************)
(* The event log                                                           *)
(***************************************************************************)
\* C23: the event log is append-only and holds exactly one event per
\* unfriend or unblock call that returned success: a step either leaves
\* the log alone or appends one event to it, and it appends exactly when
\* the call was an unfriend or an unblock that returned success
C23_EventPerCompletedCall ==
    [][ /\ \/ friendshipEvents' = friendshipEvents
           \/ /\ Len(friendshipEvents') = Len(friendshipEvents) + 1
              /\ SubSeq(friendshipEvents', 1, Len(friendshipEvents)) = friendshipEvents
        /\ (friendshipEvents' # friendshipEvents)
             <=> /\ last'.op \in {"unfriend", "unblockUser"}
                 /\ last'.result.success ]_vars


C25_RolesFollowInitiator ==
    [][ \A k \in MirrorKeys :
          LET f == friendships'[FriendshipId(k[1], k[2])]
          IN  ( /\ ~userFriendships[k].exists
                /\ userFriendships'[k].exists
                /\ f.exists
                /\ f.status \in {"pending", "accepted"}
                /\ f.initiatorId # None )
                => userFriendships'[k].role =
                     (IF k[1] = f.initiatorId THEN "initiator" ELSE "recipient") ]_vars


(***************************************************************************)
(* Conversations                                                           *)
(***************************************************************************)
\* C26: a Conversation comes into existence only in a step that takes the
\* Relationship from pending to accepted, or in a repair of an accepted
\* Relationship, and a Conversation that exists is removed by no step
\* other than one of blockUser
C26_ConversationLifecycle ==
    [][ \A id \in FriendshipIds :
          /\ (~chats[id].exists /\ chats'[id].exists)
               => \/ /\ last'.op = "acceptFriendRequest"
                     /\ friendships[id].exists
                     /\ friendships[id].status = "pending"
                     /\ friendships'[id].status = "accepted"
                  \/ /\ last'.op = "repairFriendshipState"
                     /\ friendships[id].exists
                     /\ friendships[id].status = "accepted"
          /\ (chats[id].exists /\ ~chats'[id].exists)
               => last'.op = "blockUser" ]_vars

\* the Conversation of A and B has outlived an unfriend and the reject of
\* a later request
C26_Witness ==
    /\ last.op = "rejectFriendRequest"
    /\ last.result.success
    /\ ~friendships[AB].exists
    /\ chats[AB].exists
    /\ chats[AB].isActive = JsFalse
    /\ Len(friendshipEvents) = 1


(***************************************************************************)
(* blockedBy                                                               *)
(***************************************************************************)
\* C27: a Relationship carries blockedBy exactly when its status is
\* blocked, and blockedBy is then one of its two users
C27_BlockedByIffBlocked ==
    \A id \in FriendshipIds :
        friendships[id].exists
          => /\ (friendships[id].blockedBy # None) <=> (friendships[id].status = "blocked")
             /\ friendships[id].blockedBy # None
                  => friendships[id].blockedBy
                        \in {friendships[id].user1Id, friendships[id].user2Id}

\* B blocked A, and A's attempt to lift the block left the record as it was
C27_Witness ==
    /\ last.op = "unblockUser"
    /\ last.actor = "A"
    /\ ~last.result.success
    /\ friendships[AB].exists
    /\ friendships[AB].status = "blocked"
    /\ friendships[AB].blockedBy = "B"


(***************************************************************************)
(* Enumeration protection                                                  *)
(***************************************************************************)
\* an address no user is registered under
NoSuchEmail == CHOOSE e \in Emails : UserByEmail(e) = None

\* C28: a sendFriendRequest to a user whose Relationship with the sender is
\* blocked gives the sender the very result the same call gives for an
\* address nobody is registered under (not-found, 'User not found'), and
\* writes nothing
C28_BlockLooksLikeNoUser ==
    [][ ( /\ last'.op = "sendFriendRequest"
          /\ UserByEmail(last'.target) # None
          /\ friendships[last'.friendshipId].exists
          /\ friendships[last'.friendshipId].status = "blocked" )
        => /\ last'.result = sendFriendRequestRun(Store, last'.actor, NoSuchEmail).ret
           /\ last'.result = HttpsError("not-found", "User not found")
           /\ last'.writes = {}
           /\ StoreUnchanged ]_vars

\* A, blocked by B, sent B a request and was told the user was not found
C28_Witness ==
    /\ last.op = "sendFriendRequest"
    /\ last.actor = "A"
    /\ last.target = "B"
    /\ friendships[AB].exists
    /\ friendships[AB].status = "blocked"
    /\ friendships[AB].blockedBy = "B"
    /\ last.result = HttpsError("not-found", "User not found")


(***************************************************************************)
(* The edges of the Relationship status                                    *)
(***************************************************************************)
StatusOf(friendshipDoc) == IF friendshipDoc.exists THEN friendshipDoc.status ELSE "absent"

\* C29: with calls that do not overlap, the status of a pair changes only
\* from absent to pending by sendFriendRequest, from pending to accepted by
\* acceptFriendRequest, from pending to absent by rejectFriendRequest, from
\* accepted to absent by unfriend, from any status to blocked by blockUser
\* and from blocked to absent by unblockUser
C29_StatusEdges ==
    [][ \A id \in FriendshipIds :
          LET from == StatusOf(friendships[id])
              to == StatusOf(friendships'[id])
          IN  from # to
                => \/ from = "absent" /\ to = "pending" /\ last'.op = "sendFriendRequest"
                   \/ from = "pending" /\ to = "accepted" /\ last'.op = "acceptFriendRequest"
                   \/ from = "pending" /\ to = "absent" /\ last'.op = "rejectFriendRequest"
                   \/ from = "accepted" /\ to = "absent" /\ last'.op = "unfriend"
                   \/ to = "blocked" /\ last'.op = "blockUser"
                   \/ from = "blocked" /\ to = "absent" /\ last'.op = "unblockUser" ]_vars

\* the pair went from blocked through unblock, send, accept, unfriend and
\* send to accepted again
C29_Witness ==
    /\ last.op = "acceptFriendRequest"
    /\ last.result.success
    /\ StatusOf(friendships[AB]) = "accepted"
    /\ Len(friendshipEvents) = 2
    /\ friendshipEvents[1].action = "unblock"
    /\ friendshipEvents[2].action = "unfriend"


(***************************************************************************)
(* sendFriendRequest step by step (SendRaceSpec): the handler reads the    *)
(* Relationship with a plain get and writes later with a batch, outside    *)
(* any transaction, so other calls run between the two                     *)
(***************************************************************************)
SendProcs == {"s1", "s2"}

IdleSend == [pc |-> "idle", senderId |-> None, email |-> None]

InitSendRace ==
    /\ friendships = EmptyStore.friendships
    /\ userFriendships = EmptyStore.userFriendships
    /\ chats = EmptyStore.chats
    /\ friendshipEvents = EmptyStore.friendshipEvents
    /\ last = NoCall
    /\ procs = [p \in SendProcs |-> IdleSend]
    /\ messages = NoMessages
    /\ now = 0

\* up to the check of the existing Relationship: the call ends here with
\* the error it throws, or goes on towards the batch
sendFriendRequestCheck(p, senderId, email) ==
    LET run == sendFriendRequestRun(Store, senderId, email)
        target == UserByEmail(email)
    IN  /\ procs[p].pc = "idle"
        /\ IF run.threw
           THEN /\ last' = Called("sendFriendRequest", senderId, email,
                                  IF target = None THEN NoPair
                                  ELSE FriendshipId(senderId, target),
                                  run.ret, {})
                /\ UNCHANGED procs
           ELSE /\ procs' = [q \in SendProcs |->
                               IF q = p
                               THEN [pc |-> "checked", senderId |-> senderId,
                                     email |-> email]
                               ELSE procs[q]]
                /\ UNCHANGED last
        /\ UNCHANGED <<friendships, userFriendships, chats, friendshipEvents,
                       messages, now>>

\* batch.commit(): the three sets are applied to the store as it is now
sendFriendRequestCommit(p) ==
    LET senderId == procs[p].senderId
        targetUserId == UserByEmail(procs[p].email)
        body == Returns(sendBatch(senderId, targetUserId), Ok)
        out == runTransaction(Store, body)
    IN  /\ procs[p].pc = "checked"
        /\ Commit(out.db)
        /\ last' = Called("sendFriendRequest", senderId, procs[p].email,
                          FriendshipId(senderId, targetUserId), out.ret,
                          WrittenRefs(out, body))
        /\ procs' = [q \in SendProcs |-> IF q = p THEN IdleSend ELSE procs[q]]
        /\ UNCHANGED <<messages, now>>

NextSendRace ==
    \/ \E p \in SendProcs, a \in Actors, e \in Emails : sendFriendRequestCheck(p, a, e)
    \/ \E p \in SendProcs : sendFriendRequestCommit(p)
    \/ \E a \in Actors, id \in RequestIds : acceptFriendRequest(a, id)
    \/ \E a \in Actors, b \in Users : blockUser(a, b)

SendRaceSpec == InitSendRace /\ [][NextSendRace]_vars

\* C30: sendFriendRequest writes only when the pair has no Relationship,
\* whatever runs between its check and its write: at the step in which its
\* batch is committed no Relationship of the pair exists, so one that was
\* committed as blocked (or as anything else) is never replaced by a
\* pending one
C30_SendWritesOnlyWhenAbsent ==
    [][ \A p \in SendProcs :
          ( /\ procs[p].pc = "checked"
            /\ procs'[p].pc = "idle"
            /\ last'.writes # {} )
          => ~friendships[last'.friendshipId].exists ]_vars


(***************************************************************************)
(* repairFriendshipState step by step (RepairRaceSpec): the handler reads  *)
(* the Relationship with a plain get before its transaction, which reads   *)
(* only the two Mirrors and the chat, so other calls commit between them   *)
(***************************************************************************)
RepairProcs == {"r1", "r2"}

IdleRepair == [pc |-> "idle", userId |-> None, friendId |-> None,
               friendshipData |-> AbsentFriendship]

InitRepairRace ==
    /\ \E db \in {AfterSend, AfterAccept} \cup BlockedStores :
         /\ friendships = db.friendships
         /\ userFriendships = db.userFriendships
         /\ chats = db.chats
         /\ friendshipEvents = db.friendshipEvents
    /\ last = NoCall
    /\ procs = [p \in RepairProcs |-> IdleRepair]
    /\ messages = NoMessages
    /\ now = 0

\* friendshipRef.get(): the call ends when there is no Relationship, else it
\* keeps the data it read for the transaction
repairFriendshipStateGet(p, userId, friendId) ==
    LET friendshipDoc == friendships[FriendshipId(userId, friendId)]
    IN  /\ procs[p].pc = "idle"
        /\ IF ~friendshipDoc.exists
           THEN /\ last' = Called("repairFriendshipState", userId, friendId,
                                  FriendshipId(userId, friendId),
                                  Fail("No friendship found"), {})
                /\ UNCHANGED procs
           ELSE /\ procs' = [q \in RepairProcs |->
                               IF q = p
                               THEN [pc |-> "got", userId |-> userId,
                                     friendId |-> friendId,
                                     friendshipData |-> friendshipDoc]
                               ELSE procs[q]]
                /\ UNCHANGED last
        /\ UNCHANGED <<friendships, userFriendships, chats, friendshipEvents,
                       messages, now>>

\* db.runTransaction: the Mirrors and the chat are read now, the
\* Relationship data is the one read before
repairFriendshipStateTransaction(p) ==
    LET c == procs[p]
        body == repairFriendshipStateTxn(Store, c.friendshipData, c.userId, c.friendId)
        out == runTransaction(Store, body)
    IN  /\ c.pc = "got"
        /\ Commit(out.db)
        /\ last' = Called("repairFriendshipState", c.userId, c.friendId,
                          FriendshipId(c.userId, c.friendId),
                          acceptFriendRequestResult(out), WrittenRefs(out, body))
        /\ procs' = [q \in RepairProcs |-> IF q = p THEN IdleRepair ELSE procs[q]]
        /\ UNCHANGED <<messages, now>>

NextRepairRace ==
    \/ \E p \in RepairProcs, a \in Users : repairFriendshipStateGet(p, a, Other(a))
    \/ \E p \in RepairProcs : repairFriendshipStateTransaction(p)
    \/ \E a \in Users, x \in BOOLEAN : unfriend(a, Other(a), x)
    \/ \E a \in Users : rejectFriendRequest(a, AB)
    \/ \E a \in Users : unblockUser(a, Other(a))

RepairRaceSpec == InitRepairRace /\ [][NextRepairRace]_vars

\* C31: derived records are never written for a Relationship that no longer
\* exists: whatever runs between the steps of repairFriendshipState, a step
\* that ends with the Relationship of a pair absent leaves no Mirror of the
\* pair present and creates no Conversation for it
C31_NoDerivedWithoutRelationship ==
    [][ \A id \in FriendshipIds :
          ~friendships'[id].exists
            => /\ MirrorsAbsentIn(userFriendships', id)
               /\ chats'[id].exists => chats[id].exists ]_vars


(***************************************************************************)
(* Retried transactions (RetrySpec): the overlapping calls of ConcSpec,    *)
(* started from the blocked stores as well                                 *)
(***************************************************************************)
InitRetry ==
    /\ \E db \in ConcStartStores \cup BlockedStores :
         /\ friendships = db.friendships
         /\ userFriendships = db.userFriendships
         /\ chats = db.chats
         /\ friendshipEvents = db.friendshipEvents
    /\ last = NoCall
    /\ procs = [p \in Procs |-> IdleProc]
    /\ messages = NoMessages
    /\ now = 0

RetrySpec == InitRetry /\ [][NextConc]_vars

\* the precondition of the call c on the Relationship document f
PreconditionHolds(c, f) ==
    CASE c.op \in {"acceptFriendRequest", "rejectFriendRequest"}
           -> f.exists /\ f.status = "pending"
      [] c.op = "unfriend" -> f.exists /\ f.status = "accepted"
      [] OTHER -> f.exists /\ f.status = "blocked" /\ f.blockedBy = c.actor

\* C32: the attempt of accept, reject, unfriend or unblock that ends the
\* call decides on the documents as they are when it commits: the call is
\* rejected and changes nothing when the status no longer satisfies its
\* precondition, and what it writes is what its transaction computes from
\* the current documents, not from an earlier attempt's snapshot
C32_RetryRevalidates ==
    [][ \A p \in Procs :
          ( /\ procs[p].pc = "commit"
            /\ procs'[p].pc = "done"
            /\ procs[p].op # "blockUser" )
          => LET c == procs[p]
                 out == runTransaction(Store, TxnBody(c, Store))
             IN  /\ ~PreconditionHolds(c, friendships[c.friendshipId])
                       => ~procs'[p].result.success /\ StoreUnchanged
                 /\ friendships' = out.db.friendships
                 /\ userFriendships' = out.db.userFriendships
                 /\ chats' = out.db.chats
                 /\ friendshipEvents' = out.db.friendshipEvents ]_vars

\* a reject that read the pending Relationship, lost against an accept and
\* was run again
C32_Witness ==
    /\ procs[1].op = "rejectFriendRequest"
    /\ procs[1].pc = "done"
    /\ procs[1].startStatus = "pending"
    /\ procs[1].attempts = 2
    /\ ~procs[1].result.success
    /\ procs[1].commits = 0
    /\ procs[2].op = "acceptFriendRequest"
    /\ procs[2].pc = "done"
    /\ procs[2].result.success
    /\ friendships[AB].status = "accepted"


(***************************************************************************)
(* unfriend and its archival (UnfriendArchiveSpec): an accepted pair with  *)
(* any messages, whose chat document exists or is missing                  *)
(***************************************************************************)
InitUnfriendArchive ==
    /\ friendships = AfterAccept.friendships
    /\ userFriendships = AfterAccept.userFriendships
    /\ chats \in {AfterAccept.chats, EmptyStore.chats}
    /\ friendshipEvents = <<>>
    /\ last = NoCall
    /\ procs = NoProcs
    /\ messages \in [MessageIds -> MessageDocs]
    /\ now = 1

UnfriendArchiveSpec == InitUnfriendArchive /\ [][NextArchive]_vars

BothUnfriendAccepted ==
    /\ procs[1].actor # procs[2].actor
    /\ \A p \in Procs : /\ procs[p].op = "unfriend"
                         /\ procs[p].startStatus = "accepted"
                         /\ procs[p].pc = "done"

\* C34: when both users of an accepted Relationship call unfriend at the
\* same time, one call commits and the other is rejected without writing;
\* the Relationship and both Mirrors end absent and the Conversation stays,
\* with isActive false; and a call of unfriend appends one event (unfriend,
\* by its caller) when it commits and none otherwise
C34_ConcurrentUnfriend ==
    /\ [](BothUnfriendAccepted
            => /\ \E p \in Procs :
                    /\ procs[p].commits = 1
                    /\ \A q \in Procs \ {p} :
                           procs[q].commits = 0 /\ ~procs[q].result.success
               /\ ~friendships[AB].exists
               /\ MirrorsAbsent(AB)
               /\ chats[AB].exists
               /\ chats[AB].isActive = JsFalse
               /\ Len(friendshipEvents) >= 1
               /\ friendshipEvents[Len(friendshipEvents)].action = "unfriend")
    /\ [][ \A p \in Procs :
             ( /\ procs[p].op = "unfriend"
               /\ procs[p].pc = "commit"
               /\ procs'[p].pc = "done" )
             => IF procs'[p].commits = 1
                THEN friendshipEvents' =
                       Append(friendshipEvents,
                              [friendshipId |-> AB, action |-> "unfriend",
                               initiatorId |-> procs[p].actor,
                               targetId |-> procs[p].target])
                ELSE friendshipEvents' = friendshipEvents ]_vars

\* A and B had both read the accepted Relationship; B's call committed and
\* A's was run again and rejected
C34_Witness ==
    /\ BothUnfriendAccepted
    /\ procs[1].actor = "A"
    /\ procs[1].attempts = 2
    /\ procs[1].commits = 0
    /\ procs[2].commits = 1
    /\ procs[2].result.success
    /\ Len(friendshipEvents) = 1
    /\ friendshipEvents[1].initiatorId = "B"


(***************************************************************************)
(* The Conversation of an accepted pair                                    *)
(***************************************************************************)
\* C35: after a successful acceptFriendRequest the Conversation of the pair
\* exists and is active (isActive is not false), also when the pair was
\* unfriended before and has sent and accepted a new request
C35_AcceptedChatActive ==
    ( /\ last.op = "acceptFriendRequest"
      /\ last.result.success
      /\ friendships[last.friendshipId].exists
      /\ friendships[last.friendshipId].status = "accepted" )
    => /\ chats[last.friendshipId].exists
       /\ chats[last.friendshipId].isActive # JsFalse


(***************************************************************************)
(* Self-relations                                                          *)
(***************************************************************************)
\* C36: no stored Relationship relates a user to themselves and no Mirror
\* is owned by the user it points to, whatever was called, blockUser with
\* the caller's own id included
C36_NoSelfRelation ==
    /\ \A id \in FriendshipIds :
          friendships[id].exists => friendships[id].user1Id # friendships[id].user2Id
    /\ \A k \in MirrorKeys : userFriendships[k].exists => k[1] # k[2]

\* A, a friend of B, has called blockUser with A's own id
C36_Witness ==
    /\ last.op = "blockUser"
    /\ last.actor = "A"
    /\ last.target = "A"
    /\ ~friendships[<<"A", "A">>].exists
    /\ ~userFriendships[<<"A", "A">>].exists
    /\ friendships[AB].exists
    /\ friendships[AB].status = "accepted"


(***************************************************************************)
(* A block stays until the blocker lifts it                                *)
(***************************************************************************)
\* C37: while a Relationship is blocked, a call by anybody but the user
\* who placed the block (send, accept, reject, unfriend, block, unblock or
\* repair) leaves it blocked and leaves blockedBy as it is
C37_BlockStaysInForce ==
    [][ \A id \in FriendshipIds :
          ( /\ friendships[id].exists
            /\ friendships[id].status = "blocked"
            /\ last'.actor # friendships[id].blockedBy )
          => /\ friendships'[id].exists
             /\ friendships'[id].status = "blocked"
             /\ friendships'[id].blockedBy = friendships[id].blockedBy ]_vars

\* A blocked B; B has tried to unblock and then to block A, and A's block stands
C37_Witness ==
    /\ last.op = "blockUser"
    /\ last.actor = "B"
    /\ last.target = "A"
    /\ friendships[AB].exists
    /\ friendships[AB].status = "blocked"
    /\ friendships[AB].blockedBy = "A"


(***************************************************************************)
(* Rejected calls                                                          *)
(***************************************************************************)
\* the messages of the rejections: not found, wrong status, not authorized,
\* already exists, self-target
RejectionMessages ==
    {"User not found", "Cannot send friend request to yourself",
     "Already friends with this user", "Friend request already pending",
     "Friend request not found", "Invalid friendship data",
     "This request is no longer pending",
     "You do not have permission to accept this request",
     "You do not have permission to reject this request",
     "Friendship not found", "You are not currently friends with this user",
     "You do not have permission to unfriend this user",
     "No block record found", "This user is not blocked",
     "You did not block this user"}

\* C38: a rejected call changes nothing: when sendFriendRequest, accept,
\* reject, unfriend or unblock returns one of the rejections, the
\* Relationship, the Mirrors, the Conversation, the messages and the event
\* log are after the call what they were before it
C38_RejectionChangesNothing ==
    [][ ( /\ last'.op \in {"sendFriendRequest", "acceptFriendRequest",
                           "rejectFriendRequest", "unfriend", "unblockUser"}
          /\ ~last'.result.success
          /\ last'.result.error \in RejectionMessages )
        => /\ StoreUnchanged
           /\ messages' = messages
           /\ last'.writes = {} ]_vars

\* B, who did not place the block, was turned away by unblockUser
C38_Witness ==
    /\ last.op = "unblockUser"
    /\ last.actor = "B"
    /\ last.result = Fail("You did not block this user")
    /\ friendships[AB].exists
    /\ friendships[AB].status = "blocked"
    /\ friendships[AB].blockedBy = "A"
    /\ MirrorsMatch(AB, "blocked")


(***************************************************************************)
(* The report of checkFriendshipStatus                                     *)
(***************************************************************************)
\* the consistency invariant for one pair: a Relationship that is pending,
\* accepted or blocked, both Mirrors with its status, and the Conversation
\* when it is accepted
ConsistentPair(id) ==
    /\ friendships[id].exists
    /\ friendships[id].status \in LiveStatuses
    /\ MirrorsMatch(id, friendships[id].status)
    /\ friendships[id].status = "accepted" => chats[id].exists

\* C39: checkFriendshipStatus reports isConsistent = true exactly for the
\* states that satisfy the consistency invariant, and false when a Mirror
\* is missing or carries another status than the Relationship
C39_ReportMatchesInvariant ==
    last.op = "checkFriendshipStatus"
      => (last.result.isConsistent <=> ConsistentPair(last.friendshipId))

====
